---- MODULE Spec2Model ----
(***************************************************************************)
(* Model of the ducktiles reducer (interaction state machine), its         *)
(* geometry helpers and its layout functions.                              *)
(*                                                                         *)
(* Lengths are integers in tenths of a CSS pixel, so that the footer       *)
(* height (107.7 px) and every half of an even window size are exact.      *)
(* An optional value (T | null) is a sequence: <<>> is null, <<v>> is v.   *)
(* A JavaScript array is a sequence; a Record<Id, T> is a function whose   *)
(* DOMAIN is its key set.                                                  *)
(***************************************************************************)
EXTENDS Integers, Sequences, FiniteSets, TLC

VARIABLES state, outcome, last, budget, run

vars == <<state, outcome, last, budget, run>>

(***************************************************************************)
(* Bounds of the model                                                     *)
(***************************************************************************)
\* A run of Spec dispatches at most this many actions; the specifications of
\* single features dispatch a few more (see their Init).
MaxSteps == 3
\* Tiles are added while the tile list is no longer than this afterwards.
MaxTiles == 3
\* The geometry functions are applied to coordinates of at most this size,
\* and to shapes one longer at most.
MaxCoord == 2

(***************************************************************************)
(* config.ts                                                               *)
(***************************************************************************)
tileFontSize == 360

tileSize == (tileFontSize * 15) \div 10

tileGap == 80

buttonFontSizePx == 180

footerFontSizePx == 120

Min2(a, b) == IF a <= b THEN a ELSE b

Max2(a, b) == IF a >= b THEN a ELSE b

\* buttonFontSizeVW = 4, footerFontSizeVW = 3, defaultLineHeight = 1.15,
\* buttonVerticalPaddingEm = 0.7, the two margins 1 em: hundredths below.
calculateFooterHeight(windowWidth) ==
    LET buttonFontSize == Min2(buttonFontSizePx, (4 * windowWidth) \div 100)
        footerFontSize == Min2(footerFontSizePx, (3 * windowWidth) \div 100)
    IN  (buttonFontSize * 115 + buttonFontSize * 70 * 2 + buttonFontSize * 100
         + footerFontSize * 115 + footerFontSize * 100
         + buttonFontSize * 100) \div 100

(***************************************************************************)
(* geometry.ts                                                             *)
(***************************************************************************)
add(v1, v2) == <<v1[1] + v2[1], v1[2] + v2[2]>>

add3(v1, v2, v3) == <<v1[1] + v2[1] + v3[1], v1[2] + v2[2] + v3[2]>>

subtract(v1, v2) == <<v1[1] - v2[1], v1[2] - v2[2]>>

\* scale(vec, 0.5): the only factor the reducer uses.
scaleHalf(vec) == <<vec[1] \div 2, vec[2] \div 2>>

\* Math.round of a length given in tenths: floor(x + 0.5), back in tenths.
roundLen(x) == ((x + 5) \div 10) * 10

round(point) == <<roundLen(point[1]), roundLen(point[2])>>

RECURSIVE SumSeq(_)
SumSeq(s) == IF s = <<>> THEN 0 ELSE Head(s) + SumSeq(Tail(s))

Xs(points) == [i \in 1..Len(points) |-> points[i][1]]

Ys(points) == [i \in 1..Len(points) |-> points[i][2]]

\* round(calculateCentroid(points)) for a non-empty list: the mean is a
\* fraction, so the rounding is done on the fraction, floor(sum/(10n)+1/2).
roundedMean(values) ==
    LET n == Len(values)
    IN  ((2 * SumSeq(values) + 10 * n) \div (20 * n)) * 10

roundedCentroid(points) == <<roundedMean(Xs(points)), roundedMean(Ys(points))>>

SeqMin(s) == CHOOSE m \in {s[i] : i \in 1..Len(s)} : \A i \in 1..Len(s) : m <= s[i]

SeqMax(s) == CHOOSE m \in {s[i] : i \in 1..Len(s)} : \A i \in 1..Len(s) : m >= s[i]

\* Math.min(...xValues) of an empty argument list spreads undefined: the
\* callers test calculateBoundingBoxThrows first.
calculateBoundingBoxThrows(points) == points = <<>>

calculateBoundingBox(points) ==
    <<SeqMin(Xs(points)), SeqMax(Xs(points)), SeqMin(Ys(points)), SeqMax(Ys(points))>>

calculateBBoxCorners(bbox) == << <<bbox[1], bbox[3]>>, <<bbox[2], bbox[4]>> >>

calculateBBoxDimensions(bbox) == <<bbox[2] - bbox[1], bbox[4] - bbox[3]>>

calculateFullWindowBBox(windowDimensions) ==
    <<0, windowDimensions[1], 0, windowDimensions[2]>>

calculateSmallOffsetBBox(windowDimensions) ==
    LET footerHeight == calculateFooterHeight(windowDimensions[1])
    IN  << -(windowDimensions[1] \div 2) + tileSize \div 2,
           windowDimensions[1] \div 2 - tileSize \div 2,
           -(windowDimensions[2] \div 2) + tileSize \div 2,
           windowDimensions[2] \div 2 - footerHeight >>

\* A clamp against the low edges of the boundary only.
clampShapeTopLeftLowEdges(shapeTopLeft, shapeDimensions, boundaries) ==
    <<Max2(shapeTopLeft[1], boundaries[1]), Max2(shapeTopLeft[2], boundaries[3])>>

clampAxis(topLeft, dimension, lo, hi) ==
    LET tooFarLow == topLeft < lo
        tooFarHigh == topLeft + dimension > hi
    IN  IF tooFarLow /\ tooFarHigh THEN topLeft
        ELSE IF tooFarLow THEN lo
        ELSE IF tooFarHigh THEN hi - dimension
        ELSE topLeft

clampShapeTopLeft(shapeTopLeft, shapeDimensions, boundaries) ==
    << clampAxis(shapeTopLeft[1], shapeDimensions[1], boundaries[1], boundaries[2]),
       clampAxis(shapeTopLeft[2], shapeDimensions[2], boundaries[3], boundaries[4]) >>

(***************************************************************************)
(* reducer.ts: state                                                       *)
(***************************************************************************)
Null == <<>>

Some(v) == <<v>>

Tile(id, char, offset, ghost) ==
    [id |-> id, char |-> char, offset |-> offset, ghost |-> ghost]

Ids(tiles) == [i \in 1..Len(tiles) |-> tiles[i].id]

ToSet(s) == {s[i] : i \in 1..Len(s)}

includes(s, v) == \E i \in 1..Len(s) : s[i] = v

\* initialState, for a window of the given size.
initialState(windowDimensions) ==
    [ tiles |-> <<>>,
      animatingTileMovement |-> FALSE,
      inputLetters |-> Null,
      inputPreview |-> <<>>,
      primaryPointerPosition |-> scaleHalf(windowDimensions),
      windowDimensions |-> windowDimensions,
      activeMoves |-> <<>>,
      activeSelection |-> Null,
      selectedTileIds |-> <<>>,
      appearingTileIds |-> <<>>,
      useTouchUI |-> FALSE,
      undoStack |-> <<>>,
      redoStack |-> <<>>,
      showingZeroState |-> TRUE,
      showingHelp |-> FALSE,
      showingArrangeToLine |-> FALSE ]

\* initializer: tiles decoded from the URL fragment, when there is one.
initializer(st, hashTiles) ==
    IF hashTiles = Null THEN st
    ELSE [st EXCEPT !.tiles = hashTiles[1], !.showingZeroState = FALSE]

\* What one call of the reducer does: it returns a state, throws (a TypeError
\* leaves the caller with no next state) or never returns.
Returned(st) == {[kind |-> "returned", state |-> st]}

Threw(st) == {[kind |-> "threw", state |-> st]}

Hung(st) == {[kind |-> "hung", state |-> st]}

(***************************************************************************)
(* reducer.ts: helpers                                                     *)
(***************************************************************************)
findTilesOverlappingBox(st, corner1, corner2) ==
    LET box == calculateBoundingBox(<<corner1, corner2>>)
        overlaps(tile) ==
            LET tileMin == add(tile.offset, scaleHalf(st.windowDimensions))
                tileMaxX == tileMin[1] + tileSize
                tileMaxY == tileMin[2] + tileSize
            IN  /\ tileMin[1] <= box[2]
                /\ tileMaxX >= box[1]
                /\ tileMin[2] <= box[4]
                /\ tileMaxY >= box[3]
    IN  SelectSeq(st.tiles, overlaps)

calculateTilesSize(numberOfTiles) ==
    tileSize * numberOfTiles + tileGap * (numberOfTiles - 1)

\* The number of tiles per row the loop ends with, for tilesCount >= 1.
rowTiles(center, tilesCount, bbox) ==
    LET fits(m) == /\ center[1] - calculateTilesSize(m) \div 2 >= bbox[1]
                   /\ center[1] + calculateTilesSize(m) \div 2 <= bbox[2]
        fitting == {m \in 2..tilesCount : fits(m)}
    IN  IF fitting = {} THEN 1
        ELSE CHOOSE m \in fitting : \A k \in fitting : k <= m

\* The row packing with rows and columns exchanged.
calculateLinearTilePositionsByColumn(center, tilesCount, bbox) ==
    LET maxRowTiles == rowTiles(center, tilesCount, bbox)
        overallWidth == calculateTilesSize(maxRowTiles)
        rows == (tilesCount + maxRowTiles - 1) \div maxRowTiles
        overallHeight == calculateTilesSize(rows)
        startX == center[1] - overallWidth \div 2
        startY == center[2] - overallHeight \div 2
        adjusted == clampShapeTopLeft(<<startX, startY>>,
                                      <<overallWidth, overallHeight>>, bbox)
    IN  [i \in 1..tilesCount |->
            << adjusted[1] + ((i - 1) \div maxRowTiles) * (tileSize + tileGap),
               adjusted[2] + ((i - 1) % maxRowTiles) * (tileSize + tileGap) >>]

calculateLinearTilePositions(center, tilesCount, bbox) ==
    LET maxRowTiles == rowTiles(center, tilesCount, bbox)
        overallWidth == calculateTilesSize(maxRowTiles)
        rows == (tilesCount + maxRowTiles - 1) \div maxRowTiles
        overallHeight == calculateTilesSize(rows)
        startX == center[1] - overallWidth \div 2
        startY == center[2] - overallHeight \div 2
        adjusted == clampShapeTopLeft(<<startX, startY>>,
                                      <<overallWidth, overallHeight>>, bbox)
    IN  [i \in 1..tilesCount |->
            << adjusted[1] + ((i - 1) % maxRowTiles) * (tileSize + tileGap),
               adjusted[2] + ((i - 1) \div maxRowTiles) * (tileSize + tileGap) >>]

typeHere == <<"t", "y", "p", "e", " ", "h", "e", "r", "e">>

lastTileId(tiles) == IF tiles = <<>> THEN 0 ELSE tiles[Len(tiles)].id

placeNewTiles(st, rawText, center) ==
    LET chars == IF rawText = <<>> THEN typeHere ELSE rawText
        nextId == lastTileId(st.tiles) + 1
        offsets == calculateLinearTilePositions(
                       subtract(center, scaleHalf(st.windowDimensions)),
                       Len(chars),
                       calculateSmallOffsetBBox(st.windowDimensions))
    IN  [i \in 1..Len(chars) |->
            Tile(nextId + (i - 1), chars[i], offsets[i], rawText = <<>>)]

\* keyBy(tiles, id)[id]: the last tile of the list with that id.
tileById(tiles, id) ==
    tiles[CHOOSE i \in 1..Len(tiles) :
              /\ tiles[i].id = id
              /\ \A j \in (i + 1)..Len(tiles) : tiles[j].id # id]

\* Every id gets the first offset.
offsetOfFirst(tileIds, offsets, id) == offsets[1]

\* Object.fromEntries(zip(tileIds, offsets))[id]: the last pair with that id.
offsetById(tileIds, offsets, id) ==
    offsets[CHOOSE i \in 1..Len(tileIds) :
                /\ tileIds[i] = id
                /\ \A j \in (i + 1)..Len(tileIds) : tileIds[j] # id]

\* The lists lodash shuffle can return: every permutation of the list.
shuffled(offsets) ==
    {[i \in 1..Len(offsets) |-> offsets[p[i]]] : p \in Permutations(1..Len(offsets))}

\* No reshuffle: the candidate is taken as it comes.
loopSkipped(offsets, startingOffsets) == {offsets}

\* One shuffle, whatever it returns.
singleShuffle(offsets, startingOffsets) ==
    IF offsets # startingOffsets THEN {offsets} ELSE shuffled(offsets)

\* The offsets shuffleTiles ends its loop with; none when every permutation
\* equals startingOffsets (the loop never ends).
loopResults(offsets, startingOffsets) ==
    IF offsets # startingOffsets THEN {offsets}
    ELSE {o \in shuffled(offsets) : o # startingOffsets}

\* shuffleTiles(state, tileIds, newOffsets?): newOffsets is Null when omitted.
shuffleTiles(st, tileIds, newOffsets) ==
    IF \E i \in 1..Len(tileIds) : ~includes(Ids(st.tiles), tileIds[i])
    THEN Threw(st)
    ELSE
    LET startingOffsets == [i \in 1..Len(tileIds) |-> tileById(st.tiles, tileIds[i]).offset]
        first == IF newOffsets = Null THEN startingOffsets ELSE newOffsets[1]
        results == loopResults(first, startingOffsets)
    IN  IF results = {} THEN Hung(st)
        ELSE UNION { Returned(
                 [st EXCEPT
                    !.tiles = [i \in 1..Len(st.tiles) |->
                        IF includes(tileIds, st.tiles[i].id)
                        THEN [st.tiles[i] EXCEPT
                                 !.offset = offsetById(tileIds, offsets, st.tiles[i].id)]
                        ELSE st.tiles[i]],
                    !.undoStack = Append(st.undoStack, st.tiles),
                    !.redoStack = <<>>,
                    !.animatingTileMovement = TRUE,
                    !.appearingTileIds = <<>>]) : offsets \in results }

\* An intersection that keeps all of its second list.
intersectionKeepingSecond(s, t) == t

\* A difference that removes nothing.
differenceOfNothing(s, t) == s

\* lodash difference, union and intersection on arrays.
difference(s, t) == SelectSeq(s, LAMBDA v : ~includes(t, v))

RECURSIVE uniq(_)
uniq(s) ==
    IF s = <<>> THEN <<>>
    ELSE LET front == uniq(SubSeq(s, 1, Len(s) - 1))
             v == s[Len(s)]
         IN  IF includes(front, v) THEN front ELSE Append(front, v)

union(s, t) == uniq(s \o t)

intersection(s, t) == uniq(SelectSeq(s, LAMBDA v : includes(t, v)))

(***************************************************************************)
(* reducer.ts: innerReducer, one operator per action type                  *)
(***************************************************************************)
\* A reducer that leaves showingArrangeToLine as innerReducer returned it.
settleKeepingToggle(st, outcomes) == outcomes

\* The end of reducer: showingArrangeToLine is dropped when the action changed
\* the selection. The actions that hand over to another action (keyDown, a
\* primary pointerDown during a gesture, pointerUp and commitAddTiles while
\* composing) do so through reducer, that is through settle.
settle(st, outcomes) ==
    { IF /\ o.kind = "returned"
         /\ o.state.showingArrangeToLine
         /\ st.selectedTileIds # o.state.selectedTileIds
      THEN [o EXCEPT !.state.showingArrangeToLine = FALSE]
      ELSE o : o \in outcomes }

\* isMoving that never sees a move.
neverMoving(st) == FALSE

isMoving(st) == DOMAIN st.activeMoves # {}

bufferDelta(st) ==
    IF st.useTouchUI
    THEN IF Min2(st.windowDimensions[1], st.windowDimensions[2]) >= 6000
         THEN <<200, 200>> ELSE <<100, 100>>
    ELSE <<50, 50>>

\* The topmost tile at the point, or near it: Null or Some(tile).
topTileAtPoint(st, point) ==
    LET exact == findTilesOverlappingBox(st, point, point)
        near == findTilesOverlappingBox(st, subtract(point, bufferDelta(st)),
                                        add(point, bufferDelta(st)))
        found == IF exact # <<>> THEN exact ELSE near
    IN  IF found = <<>> THEN Null ELSE Some(found[Len(found)])

\* A registration that hands the new move to every pointer with a move.
withMoveForAll(moves, pointerId, move) ==
    [p \in DOMAIN moves \cup {pointerId} |-> move]

withMove(moves, pointerId, move) ==
    [p \in DOMAIN moves \cup {pointerId} |-> IF p = pointerId THEN move ELSE moves[p]]

\* A removal that keeps every move.
withoutMoveKeepingAll(moves, pointerId) == moves

withoutMove(moves, pointerId) ==
    [p \in DOMAIN moves \ {pointerId} |-> moves[p]]

\* The pointerDown branch with a selection box that always clears the
\* selection.
startGestureOnClearingSelection(st, action, touched) ==
    LET touchedTileIsMoving ==
            /\ touched # Null
            /\ \E p \in DOMAIN st.activeMoves :
                   includes(st.activeMoves[p].tileIds, touched[1].id)
        touchedTileIsSelected ==
            touched # Null /\ includes(st.selectedTileIds, touched[1].id)
        movingTileIds ==
            IF ~isMoving(st) /\ touchedTileIsSelected
            THEN st.selectedTileIds ELSE <<touched[1].id>>
        selectedTileIds ==
            IF ~isMoving(st) /\ ~touchedTileIsSelected THEN <<touched[1].id>>
            ELSE IF touchedTileIsSelected THEN st.selectedTileIds
            ELSE Append(st.selectedTileIds, touched[1].id)
    IN  IF touched = Null \/ action.hasModifier
        THEN IF isMoving(st) THEN Returned(st)
             ELSE Returned([st EXCEPT
                      !.activeSelection = Some(
                          [origin |-> action.point,
                           tileIds |-> IF touched = Null THEN <<>> ELSE <<touched[1].id>>,
                           deselecting |-> touchedTileIsSelected]),
                      !.primaryPointerPosition = action.point,
                      !.selectedTileIds = <<>>])
        ELSE IF touchedTileIsMoving THEN Returned(st)
        ELSE Returned([st EXCEPT
                 !.animatingTileMovement = FALSE,
                 !.appearingTileIds = <<>>,
                 !.activeMoves = withMove(st.activeMoves, action.pointerId,
                     [origin |-> action.point, position |-> action.point,
                      tileIds |-> movingTileIds, preview |-> <<>>]),
                 !.selectedTileIds = selectedTileIds])

\* The rest of the pointerDown branch, for the tile found at the point.
startGestureOn(st, action, touched) ==
    LET touchedTileIsMoving ==
            /\ touched # Null
            /\ \E p \in DOMAIN st.activeMoves :
                   includes(st.activeMoves[p].tileIds, touched[1].id)
        touchedTileIsSelected ==
            touched # Null /\ includes(st.selectedTileIds, touched[1].id)
        movingTileIds ==
            IF ~isMoving(st) /\ touchedTileIsSelected
            THEN st.selectedTileIds ELSE <<touched[1].id>>
        selectedTileIds ==
            IF ~isMoving(st) /\ ~touchedTileIsSelected THEN <<touched[1].id>>
            ELSE IF touchedTileIsSelected THEN st.selectedTileIds
            ELSE Append(st.selectedTileIds, touched[1].id)
    IN  IF touched = Null \/ action.hasModifier
        THEN IF isMoving(st) THEN Returned(st)
             ELSE Returned([st EXCEPT
                      !.activeSelection = Some(
                          [origin |-> action.point,
                           tileIds |-> IF touched = Null THEN <<>> ELSE <<touched[1].id>>,
                           deselecting |-> touchedTileIsSelected]),
                      !.primaryPointerPosition = action.point,
                      !.selectedTileIds =
                          IF action.hasModifier THEN st.selectedTileIds ELSE <<>>])
        ELSE IF touchedTileIsMoving THEN Returned(st)
        ELSE Returned([st EXCEPT
                 !.animatingTileMovement = FALSE,
                 !.appearingTileIds = <<>>,
                 !.activeMoves = withMove(st.activeMoves, action.pointerId,
                     [origin |-> action.point, position |-> action.point,
                      tileIds |-> movingTileIds, preview |-> <<>>]),
                 !.selectedTileIds = selectedTileIds])

startGesture(st, action) == startGestureOn(st, action, topTileAtPoint(st, action.point))

\* pointerDown that starts a gesture whether or not a selection box is active.
pointerDownDuringSelection(st, action) == startGesture(st, action)

\* pointerDown outside composition, once a primary pointer's stale gestures
\* are cleared.
pointerDownIdle(st, action) ==
    IF st.activeSelection # Null THEN Returned(st)
    ELSE startGesture(st, action)

\* pointerDown without the reset of stale gestures.
pointerDownKeepingGestures(st, action) ==
    IF st.inputLetters # Null THEN Returned(st)
    ELSE pointerDownIdle(st, action)

\* pointerDown without the test for composition.
pointerDownWhileComposing(st, action) ==
    IF action.isPrimary /\ (st.activeSelection # Null \/ isMoving(st))
    THEN LET cleared == [st EXCEPT !.activeSelection = Null, !.activeMoves = <<>>]
         IN  settle(cleared, pointerDownIdle(cleared, action))
    ELSE pointerDownIdle(st, action)

\* The reducer is re-entered with the gestures cleared: the first two tests
\* fail then, and the rest of the branch runs.
pointerDown(st, action) ==
    IF st.inputLetters # Null THEN Returned(st)
    ELSE IF action.isPrimary /\ (st.activeSelection # Null \/ isMoving(st))
    THEN LET cleared == [st EXCEPT !.activeSelection = Null, !.activeMoves = <<>>]
         IN  settle(cleared, pointerDownIdle(cleared, action))
    ELSE pointerDownIdle(st, action)

previewKeyed(tiles) == [id \in ToSet(Ids(tiles)) |-> tileById(tiles, id)]

dragPreview(st, relevantMove, point) ==
    LET offsetDelta == subtract(point, relevantMove.origin)
        movingTiles == SelectSeq(st.tiles, LAMBDA t : includes(relevantMove.tileIds, t.id))
        windowCenter == scaleHalf(st.windowDimensions)
        cornersBBox == calculateBoundingBox(
            [i \in 1..Len(movingTiles) |->
                add3(movingTiles[i].offset, windowCenter, offsetDelta)])
        tilesBBox == <<cornersBBox[1], cornersBBox[2] + tileSize,
                       cornersBBox[3], cornersBBox[4] + tileSize>>
        tilesBBoxTopLeft == calculateBBoxCorners(tilesBBox)[1]
        adjustedTopLeft == clampShapeTopLeft(tilesBBoxTopLeft,
                               calculateBBoxDimensions(tilesBBox),
                               calculateFullWindowBBox(st.windowDimensions))
        adjustmentDelta == subtract(adjustedTopLeft, tilesBBoxTopLeft)
    IN  previewKeyed([i \in 1..Len(movingTiles) |->
            [movingTiles[i] EXCEPT
                !.offset = add3(movingTiles[i].offset, offsetDelta, adjustmentDelta)]])

\* pointerMove that selects the tiles under the box while it is stretched.
pointerMoveSelecting(st, action) ==
    LET primaryPointerPosition ==
            IF action.isPrimary THEN action.point ELSE st.primaryPointerPosition
    IN  IF st.inputLetters # Null /\ action.isPrimary
        THEN Returned([st EXCEPT
                 !.primaryPointerPosition = primaryPointerPosition,
                 !.inputPreview = placeNewTiles(st, st.inputLetters[1], action.point)])
        ELSE IF st.activeSelection # Null /\ action.isPrimary
        THEN Returned([st EXCEPT
                 !.activeSelection = Some([st.activeSelection[1] EXCEPT
                     !.tileIds = Ids(findTilesOverlappingBox(
                                     st, st.activeSelection[1].origin, action.point))]),
                 !.selectedTileIds = Ids(findTilesOverlappingBox(
                                         st, st.activeSelection[1].origin, action.point)),
                 !.primaryPointerPosition = primaryPointerPosition])
        ELSE IF action.pointerId \notin DOMAIN st.activeMoves
        THEN Returned([st EXCEPT !.primaryPointerPosition = primaryPointerPosition])
        ELSE LET relevantMove == st.activeMoves[action.pointerId]
             IN  IF calculateBoundingBoxThrows(
                        SelectSeq(st.tiles, LAMBDA t : includes(relevantMove.tileIds, t.id)))
                 THEN Threw(st)
                 ELSE Returned([st EXCEPT
                          !.activeMoves = withMove(st.activeMoves, action.pointerId,
                              [relevantMove EXCEPT
                                  !.position = action.point,
                                  !.preview = dragPreview(st, relevantMove, action.point)]),
                          !.primaryPointerPosition = primaryPointerPosition])

pointerMove(st, action) ==
    LET primaryPointerPosition ==
            IF action.isPrimary THEN action.point ELSE st.primaryPointerPosition
    IN  IF st.inputLetters # Null /\ action.isPrimary
        THEN Returned([st EXCEPT
                 !.primaryPointerPosition = primaryPointerPosition,
                 !.inputPreview = placeNewTiles(st, st.inputLetters[1], action.point)])
        ELSE IF st.activeSelection # Null /\ action.isPrimary
        THEN Returned([st EXCEPT
                 !.activeSelection = Some([st.activeSelection[1] EXCEPT
                     !.tileIds = Ids(findTilesOverlappingBox(
                                     st, st.activeSelection[1].origin, action.point))]),
                 !.primaryPointerPosition = primaryPointerPosition])
        ELSE IF action.pointerId \notin DOMAIN st.activeMoves
        THEN Returned([st EXCEPT !.primaryPointerPosition = primaryPointerPosition])
        ELSE LET relevantMove == st.activeMoves[action.pointerId]
             IN  IF calculateBoundingBoxThrows(
                        SelectSeq(st.tiles, LAMBDA t : includes(relevantMove.tileIds, t.id)))
                 THEN Threw(st)
                 ELSE Returned([st EXCEPT
                          !.activeMoves = withMove(st.activeMoves, action.pointerId,
                              [relevantMove EXCEPT
                                  !.position = action.point,
                                  !.preview = dragPreview(st, relevantMove, action.point)]),
                          !.primaryPointerPosition = primaryPointerPosition])

cancelAddTiles(st) ==
    Returned([st EXCEPT !.inputLetters = Null, !.inputPreview = <<>>])

\* commitAddTiles without the test for an empty composition.
commitAddTilesUnguarded(st) ==
    Returned([st EXCEPT
        !.tiles = st.tiles \o st.inputPreview,
        !.undoStack = Append(st.undoStack, st.tiles),
        !.redoStack = <<>>,
        !.inputLetters = Null,
        !.inputPreview = <<>>,
        !.animatingTileMovement = FALSE,
        !.appearingTileIds = Ids(st.inputPreview),
        !.showingArrangeToLine = FALSE])

commitAddTiles(st) ==
    IF st.inputLetters = Null \/ st.inputLetters = Some(<<>>)
    THEN settle(st, cancelAddTiles(st))
    ELSE Returned([st EXCEPT
             !.tiles = st.tiles \o st.inputPreview,
             !.undoStack = Append(st.undoStack, st.tiles),
             !.redoStack = <<>>,
             !.inputLetters = Null,
             !.inputPreview = <<>>,
             !.animatingTileMovement = FALSE,
             !.appearingTileIds = Ids(st.inputPreview),
             !.showingArrangeToLine = FALSE])

\* pointerUp that snapshots the tile list after the move instead of before.
pointerUpSnapshotAfter(st, action) ==
    IF st.inputLetters # Null /\ action.isPrimary
    THEN settle(st, commitAddTiles(st))
    ELSE IF st.activeSelection # Null /\ action.isPrimary
    THEN Returned([st EXCEPT !.activeSelection = Null])
    ELSE IF action.pointerId \notin DOMAIN st.activeMoves THEN Returned(st)
    ELSE LET relevantMove == st.activeMoves[action.pointerId]
             moved == [i \in 1..Len(st.tiles) |->
                         IF st.tiles[i].id \in DOMAIN relevantMove.preview
                         THEN relevantMove.preview[st.tiles[i].id] ELSE st.tiles[i]]
         IN  Returned([st EXCEPT
                 !.tiles = moved,
                 !.undoStack = Append(st.undoStack, moved),
                 !.redoStack = <<>>,
                 !.activeMoves = withoutMove(st.activeMoves, action.pointerId)])

pointerUp(st, action) ==
    IF st.inputLetters # Null /\ action.isPrimary
    THEN settle(st, commitAddTiles(st))
    ELSE IF st.activeSelection # Null /\ action.isPrimary
    THEN Returned([st EXCEPT
             !.activeSelection = Null,
             !.selectedTileIds =
                 IF st.activeSelection[1].deselecting
                 THEN difference(st.selectedTileIds, st.activeSelection[1].tileIds)
                 ELSE union(st.selectedTileIds, st.activeSelection[1].tileIds)])
    ELSE IF action.pointerId \notin DOMAIN st.activeMoves THEN Returned(st)
    ELSE LET relevantMove == st.activeMoves[action.pointerId]
         IN  Returned([st EXCEPT
                 !.tiles = [i \in 1..Len(st.tiles) |->
                     IF st.tiles[i].id \in DOMAIN relevantMove.preview
                     THEN relevantMove.preview[st.tiles[i].id] ELSE st.tiles[i]],
                 !.undoStack = Append(st.undoStack, st.tiles),
                 !.redoStack = <<>>,
                 !.activeMoves = withoutMove(st.activeMoves, action.pointerId),
                 !.selectedTileIds =
                     IF action.isPrimary THEN st.selectedTileIds
                     ELSE difference(st.selectedTileIds, relevantMove.tileIds)])

\* windowResize that records the tile list in the history.
windowResizeWithSnapshot(st, action) ==
    LET offsetBBox == calculateSmallOffsetBBox(st.windowDimensions)
    IN  Returned([st EXCEPT
            !.windowDimensions = action.dimensions,
            !.tiles = [i \in 1..Len(st.tiles) |->
                [st.tiles[i] EXCEPT
                    !.offset = clampShapeTopLeft(st.tiles[i].offset,
                                   <<tileSize, tileSize>>, offsetBBox)]],
            !.undoStack = Append(st.undoStack, st.tiles),
            !.redoStack = <<>>,
            !.animatingTileMovement = FALSE,
            !.appearingTileIds = <<>>])

windowResize(st, action) ==
    LET offsetBBox == calculateSmallOffsetBBox(st.windowDimensions)
    IN  Returned([st EXCEPT
            !.windowDimensions = action.dimensions,
            !.tiles = [i \in 1..Len(st.tiles) |->
                [st.tiles[i] EXCEPT
                    !.offset = clampShapeTopLeft(st.tiles[i].offset,
                                   <<tileSize, tileSize>>, offsetBBox)]],
            !.animatingTileMovement = FALSE,
            !.appearingTileIds = <<>>])

startAddTiles(st) ==
    Returned([st EXCEPT
        !.inputLetters = Some(<<>>),
        !.inputPreview = placeNewTiles(st, <<>>, st.primaryPointerPosition),
        !.selectedTileIds = <<>>,
        !.animatingTileMovement = FALSE,
        !.appearingTileIds = <<>>,
        !.showingZeroState = FALSE])

backspaceAddTilesInput(st) ==
    LET inputLetters ==
            IF st.inputLetters = Null \/ st.inputLetters = Some(<<>>) THEN <<>>
            ELSE SubSeq(st.inputLetters[1], 1, Len(st.inputLetters[1]) - 1)
    IN  Returned([st EXCEPT
            !.inputLetters = Some(inputLetters),
            !.inputPreview = placeNewTiles(st, inputLetters, st.primaryPointerPosition)])

\* String.prototype.trim on a list of characters.
RECURSIVE trimStart(_)
trimStart(s) == IF s # <<>> /\ Head(s) = " " THEN trimStart(Tail(s)) ELSE s

RECURSIVE trimEnd(_)
trimEnd(s) ==
    IF s # <<>> /\ s[Len(s)] = " " THEN trimEnd(SubSeq(s, 1, Len(s) - 1)) ELSE s

trim(s) == trimEnd(trimStart(s))

changeAddTilesInputReplacing(st, action) ==
    LET inputLetters ==
            IF action.input = <<" ">> THEN action.input ELSE trim(action.input)
    IN  Returned([st EXCEPT
            !.inputLetters = Some(inputLetters),
            !.inputPreview = placeNewTiles(st, inputLetters, st.primaryPointerPosition)])

\* null + "x" is "nullx" in JavaScript.
changeAddTilesInput(st, action) ==
    LET before == IF st.inputLetters = Null THEN <<"n", "u", "l", "l">>
                  ELSE st.inputLetters[1]
        inputLetters ==
            before \o (IF action.input = <<" ">> THEN action.input ELSE trim(action.input))
    IN  Returned([st EXCEPT
            !.inputLetters = Some(inputLetters),
            !.inputPreview = placeNewTiles(st, inputLetters, st.primaryPointerPosition)])

addTilesFromPrompt(st, action) ==
    LET newTiles == placeNewTiles(st, action.text, scaleHalf(st.windowDimensions))
    IN  Returned([st EXCEPT
            !.tiles = st.tiles \o newTiles,
            !.undoStack = Append(st.undoStack, st.tiles),
            !.redoStack = <<>>,
            !.selectedTileIds = <<>>,
            !.showingZeroState = FALSE,
            !.animatingTileMovement = FALSE,
            !.appearingTileIds = Ids(newTiles),
            !.showingArrangeToLine = FALSE])

selectAll(st) == Returned([st EXCEPT !.selectedTileIds = Ids(st.tiles)])

\* The tiles shuffle and arrange act on.
targetTileIds(st) ==
    IF Len(st.selectedTileIds) > 1 THEN st.selectedTileIds ELSE Ids(st.tiles)

shuffle(st) == shuffleTiles(st, targetTileIds(st), Null)

\* The circle of arrange: radiusPx = n * tileSize * 1.5 / (2 pi) is irrational,
\* so the radius and each cos(angle) * radiusPx, sin(angle) * radiusPx are
\* tabulated in tenths as <<floor, ceiling, Math.round>>; a comparison of
\* such a length with a length in whole tenths is decided by its floor or its
\* ceiling, and Math.round of its sum with a whole pixel by its Math.round.
radiusFloor(n) == CASE n = 3 -> 386 [] n = 4 -> 515 [] n = 5 -> 644 [] n = 6 -> 773

radiusCeil(n) == CASE n = 3 -> 387 [] n = 4 -> 516 [] n = 5 -> 645 [] n = 6 -> 774

\* Per tile index (from 0): <<cos floor, cos ceiling, cos round,
\*                             sin floor, sin ceiling, sin round>>.
circlePoints(n) ==
    CASE n = 3 ->
            << <<386, 387, 390, 0, 0, 0>>,
               <<-194, -193, -190, 334, 335, 330>>,
               <<-194, -193, -190, -335, -334, -330>> >>
      [] n = 4 ->
            << <<515, 516, 520, 0, 0, 0>>,
               <<0, 0, 0, 515, 516, 520>>,
               <<-516, -515, -520, 0, 0, 0>>,
               <<0, 0, 0, -516, -515, -520>> >>
      [] n = 5 ->
            << <<644, 645, 640, 0, 0, 0>>,
               <<199, 200, 200, 613, 614, 610>>,
               <<-522, -521, -520, 378, 379, 380>>,
               <<-522, -521, -520, -379, -378, -380>>,
               <<199, 200, 200, -614, -613, -610>> >>
      [] n = 6 ->
            << <<773, 774, 770, 0, 0, 0>>,
               <<386, 387, 390, 669, 670, 670>>,
               <<-387, -386, -390, 669, 670, 670>>,
               <<-774, -773, -770, 0, 0, 0>>,
               <<-387, -386, -390, -670, -669, -670>>,
               <<386, 387, 390, -670, -669, -670>> >>

\* round(add(centroid, subtract(adjustedTopLeft, topLeft))) on one axis, the
\* shape being the square around the circle, of side 2 * radiusPx + tileSize.
adjustedCentroidAxis(c, n, lo, hi) ==
    LET tooFarLow == radiusCeil(n) > c - lo
        tooFarHigh == radiusCeil(n) > hi - tileSize - c
    IN  IF tooFarLow /\ tooFarHigh THEN c
        ELSE IF tooFarLow THEN roundLen(lo + radiusFloor(n))
        ELSE IF tooFarHigh THEN roundLen(hi - tileSize - radiusCeil(n))
        ELSE c

\* round(clampShapeTopLeft(add(adjustedCentroid, [cos * r, sin * r]), ...)) on
\* one axis; fl, ce, rd are the floor, ceiling and rounding of cos * r.
circleTargetAxis(c, fl, ce, rd, lo, hi) ==
    LET tooFarLow == fl < lo - c
        tooFarHigh == ce > hi - tileSize - c
    IN  IF tooFarLow /\ tooFarHigh THEN c + rd
        ELSE IF tooFarLow THEN roundLen(lo)
        ELSE IF tooFarHigh THEN roundLen(hi - tileSize)
        ELSE c + rd

calculateCircularTilePositions(centroid, n, offsetBBox) ==
    LET cx == adjustedCentroidAxis(centroid[1], n, offsetBBox[1], offsetBBox[2])
        cy == adjustedCentroidAxis(centroid[2], n, offsetBBox[3], offsetBBox[4])
        pt(i) == circlePoints(n)[i]
    IN  [i \in 1..n |->
            << circleTargetAxis(cx, pt(i)[1], pt(i)[2], pt(i)[3],
                                offsetBBox[1], offsetBBox[2]),
               circleTargetAxis(cy, pt(i)[4], pt(i)[5], pt(i)[6],
                                offsetBBox[3], offsetBBox[4]) >>]

withArrangeToLine(outcomes, flag) ==
    {IF o.kind = "returned"
     THEN [o EXCEPT !.state.showingArrangeToLine = flag] ELSE o : o \in outcomes}

arrange(st) ==
    LET tileIds == targetTileIds(st)
        n == Len(tileIds)
        arrangeToLine == n < 3 \/ st.showingArrangeToLine
        startingOffsets == [i \in 1..n |-> tileById(st.tiles, tileIds[i]).offset]
        centroid == roundedCentroid(startingOffsets)
        offsetBBox == calculateSmallOffsetBBox(st.windowDimensions)
    IN  IF \E i \in 1..n : ~includes(Ids(st.tiles), tileIds[i]) THEN Threw(st)
        \* No tiles: the centroid is NaN and the row loop never ends.
        ELSE IF n = 0 THEN Hung(st)
        ELSE IF arrangeToLine
        THEN withArrangeToLine(
                 shuffleTiles(st, tileIds, Some(calculateLinearTilePositions(
                     add(centroid, <<tileSize \div 2, tileSize \div 2>>), n, offsetBBox))),
                 FALSE)
        ELSE withArrangeToLine(
                 UNION {shuffleTiles(st, tileIds, Some(targetOffsets)) :
                        targetOffsets \in shuffled(
                            calculateCircularTilePositions(centroid, n, offsetBBox))},
                 TRUE)

\* delete that leaves the history stacks alone.
deleteWithoutSnapshot(st) ==
    Returned([st EXCEPT
        !.tiles = IF Len(st.selectedTileIds) > 0
                  THEN SelectSeq(st.tiles, LAMBDA t : ~includes(st.selectedTileIds, t.id))
                  ELSE <<>>,
        !.selectedTileIds = <<>>,
        !.showingArrangeToLine = FALSE])

\* delete that removes nothing when nothing is selected.
deleteOnlySelected(st) ==
    Returned([st EXCEPT
        !.tiles = SelectSeq(st.tiles, LAMBDA t : ~includes(st.selectedTileIds, t.id)),
        !.undoStack = Append(st.undoStack, st.tiles),
        !.redoStack = <<>>,
        !.selectedTileIds = <<>>,
        !.showingArrangeToLine = FALSE])

delete(st) ==
    Returned([st EXCEPT
        !.tiles = IF Len(st.selectedTileIds) > 0
                  THEN SelectSeq(st.tiles, LAMBDA t : ~includes(st.selectedTileIds, t.id))
                  ELSE <<>>,
        !.undoStack = Append(st.undoStack, st.tiles),
        !.redoStack = <<>>,
        !.selectedTileIds = <<>>,
        !.showingArrangeToLine = FALSE])

\* undo that leaves the moves in flight.
undoKeepingMoves(st) ==
    IF st.undoStack = <<>> THEN Returned(st)
    ELSE LET newTiles == st.undoStack[Len(st.undoStack)]
         IN  Returned([st EXCEPT
                 !.tiles = newTiles,
                 !.undoStack = SubSeq(st.undoStack, 1, Len(st.undoStack) - 1),
                 !.redoStack = <<st.tiles>> \o st.redoStack,
                 !.animatingTileMovement = TRUE,
                 !.appearingTileIds = difference(Ids(newTiles), Ids(st.tiles)),
                 !.selectedTileIds = intersection(Ids(newTiles), st.selectedTileIds),
                 !.showingArrangeToLine = FALSE])

\* undo that puts the undone tile list at the far end of redoStack.
undoAppendingRedo(st) ==
    IF st.undoStack = <<>> THEN Returned(st)
    ELSE LET newTiles == st.undoStack[Len(st.undoStack)]
         IN  Returned([st EXCEPT
                 !.tiles = newTiles,
                 !.undoStack = SubSeq(st.undoStack, 1, Len(st.undoStack) - 1),
                 !.redoStack = Append(st.redoStack, st.tiles),
                 !.animatingTileMovement = TRUE,
                 !.appearingTileIds = difference(Ids(newTiles), Ids(st.tiles)),
                 !.selectedTileIds = intersection(Ids(newTiles), st.selectedTileIds),
                 !.activeMoves = <<>>,
                 !.showingArrangeToLine = FALSE])

undo(st) ==
    IF st.undoStack = <<>> THEN Returned(st)
    ELSE LET newTiles == st.undoStack[Len(st.undoStack)]
         IN  Returned([st EXCEPT
                 !.tiles = newTiles,
                 !.undoStack = SubSeq(st.undoStack, 1, Len(st.undoStack) - 1),
                 !.redoStack = <<st.tiles>> \o st.redoStack,
                 !.animatingTileMovement = TRUE,
                 !.appearingTileIds = difference(Ids(newTiles), Ids(st.tiles)),
                 !.selectedTileIds = intersection(Ids(newTiles), st.selectedTileIds),
                 !.activeMoves = <<>>,
                 !.showingArrangeToLine = FALSE])

\* redo that drops the moves before it looks at redoStack.
redoDroppingMovesFirst(st) ==
    LET dropped == [st EXCEPT !.activeMoves = <<>>]
    IN  IF st.redoStack = <<>> THEN Returned(dropped)
        ELSE LET newTiles == st.redoStack[1]
             IN  Returned([dropped EXCEPT
                     !.tiles = newTiles,
                     !.undoStack = Append(st.undoStack, st.tiles),
                     !.redoStack = Tail(st.redoStack),
                     !.animatingTileMovement = TRUE,
                     !.appearingTileIds = difference(Ids(newTiles), Ids(st.tiles)),
                     !.selectedTileIds = intersection(Ids(newTiles), st.selectedTileIds),
                     !.showingArrangeToLine = FALSE])

redo(st) ==
    IF st.redoStack = <<>> THEN Returned(st)
    ELSE LET newTiles == st.redoStack[1]
         IN  Returned([st EXCEPT
                 !.tiles = newTiles,
                 !.undoStack = Append(st.undoStack, st.tiles),
                 !.redoStack = Tail(st.redoStack),
                 !.animatingTileMovement = TRUE,
                 !.appearingTileIds = difference(Ids(newTiles), Ids(st.tiles)),
                 !.selectedTileIds = intersection(Ids(newTiles), st.selectedTileIds),
                 !.activeMoves = <<>>,
                 !.showingArrangeToLine = FALSE])

enableTouchUI(st) == Returned([st EXCEPT !.useTouchUI = TRUE])

disableTouchUI(st) == Returned([st EXCEPT !.useTouchUI = FALSE])

showHelp(st) == Returned([st EXCEPT !.showingHelp = TRUE])

hideHelp(st) == Returned([st EXCEPT !.showingHelp = FALSE])

\* The action a key-down is reduced to; Null when the key does nothing.
keyDownAction(st, action) ==
    LET key == action.key
        isShortcut == action.isShortcut
        shiftKey == action.shiftKey
        composing == st.inputLetters # Null
    IN  IF st.showingHelp
        THEN IF key \in {" ", "Escape", "Enter", "?"}
             THEN Some([type |-> "hideHelp"]) ELSE Null
        ELSE IF key = " " /\ ~composing THEN Some([type |-> "startAddTiles"])
        ELSE IF key = "Backspace" /\ composing
        THEN Some([type |-> "backspaceAddTilesInput"])
        ELSE IF key \in {"Backspace", "Delete"} /\ Len(st.selectedTileIds) > 0
        THEN Some([type |-> "delete"])
        ELSE IF key = "Escape" /\ composing THEN Some([type |-> "cancelAddTiles"])
        ELSE IF key = "Enter" /\ composing THEN Some([type |-> "commitAddTiles"])
        ELSE IF key = "a" /\ isShortcut THEN Some([type |-> "selectAll"])
        ELSE IF key = "s" /\ ~shiftKey /\ isShortcut THEN Some([type |-> "shuffle"])
        ELSE IF key = "s" /\ shiftKey /\ isShortcut THEN Some([type |-> "arrange"])
        ELSE IF key = "z" /\ ~shiftKey /\ isShortcut THEN Some([type |-> "undo"])
        ELSE IF ((key = "z" /\ shiftKey) \/ key = "y") /\ isShortcut
        THEN Some([type |-> "redo"])
        ELSE IF key = "?" /\ ~st.showingHelp /\ ~composing
        THEN Some([type |-> "showHelp"])
        ELSE Null

\* innerReducer for every action type but keyDown.
handle(st, action) ==
    CASE action.type = "pointerDown" -> pointerDown(st, action)
      [] action.type = "pointerMove" -> pointerMove(st, action)
      [] action.type = "pointerUp" -> pointerUp(st, action)
      [] action.type = "windowResize" -> windowResize(st, action)
      [] action.type = "startAddTiles" -> startAddTiles(st)
      [] action.type = "backspaceAddTilesInput" -> backspaceAddTilesInput(st)
      [] action.type = "changeAddTilesInput" -> changeAddTilesInput(st, action)
      [] action.type = "cancelAddTiles" -> cancelAddTiles(st)
      [] action.type = "commitAddTiles" -> commitAddTiles(st)
      [] action.type = "addTilesFromPrompt" -> addTilesFromPrompt(st, action)
      [] action.type = "selectAll" -> selectAll(st)
      [] action.type = "shuffle" -> shuffle(st)
      [] action.type = "arrange" -> arrange(st)
      [] action.type = "delete" -> delete(st)
      [] action.type = "undo" -> undo(st)
      [] action.type = "redo" -> redo(st)
      [] action.type = "enableTouchUI" -> enableTouchUI(st)
      [] action.type = "disableTouchUI" -> disableTouchUI(st)
      [] action.type = "showHelp" -> showHelp(st)
      [] action.type = "hideHelp" -> hideHelp(st)

keyDown(st, action) ==
    IF keyDownAction(st, action) = Null THEN Returned(st)
    ELSE settle(st, handle(st, keyDownAction(st, action)[1]))

innerReducer(st, action) ==
    IF action.type = "keyDown" THEN keyDown(st, action) ELSE handle(st, action)

reducer(st, action) == settle(st, innerReducer(st, action))

(***************************************************************************)
(* Inputs of the model                                                     *)
(***************************************************************************)
\* Window sizes (600 x 400 and 200 x 300 px).
Windows == {<<6000, 4000>>, <<2000, 3000>>}

StartWindow == <<6000, 4000>>

\* Pointer positions: on the first tile of a centred row, on its last tile,
\* and in the bottom right corner of the start window.
Points == {<<2500, 2000>>, <<3400, 2000>>, <<5900, 3900>>}

\* Pointers: the primary one and a second touch.
Pointers == {[pointerId |-> 1, isPrimary |-> TRUE], [pointerId |-> 2, isPrimary |-> FALSE]}

Texts == {<<"a">>, <<"a", "b">>}

Inputs == {<<"a">>, <<"b">>, <<" ", "b">>}

Key(key, isShortcut, shiftKey) ==
    [type |-> "keyDown", key |-> key, isShortcut |-> isShortcut, shiftKey |-> shiftKey]

\* Key-down events: every key the reducer tests, with the modifiers it tests
\* them with, and a key it does not know.
KeyEvents ==
    {Key(k, FALSE, FALSE) : k \in {" ", "Backspace", "Delete", "Escape", "Enter", "?", "q"}}
    \cup {Key(k, TRUE, FALSE) : k \in {"a", "s", "z", "y"}}
    \cup {Key(k, TRUE, TRUE) : k \in {"s", "z"}}
    \cup {Key("z", FALSE, FALSE)}

\* Tile lists a URL fragment written by the program can hold: rows added in
\* the start window.
HashBoards ==
    {Null} \cup
    {Some(placeNewTiles(initialState(StartWindow), text, scaleHalf(StartWindow))) :
        text \in {<<"a", "b">>}}

Bounded(st) ==
    /\ Len(st.tiles) <= MaxTiles
    /\ st.inputLetters # Null => Len(st.inputLetters[1]) <= MaxTiles

\* Book-keeping of a run of drag gestures followed by undos: the tile list
\* the run started from, the moves committed since and the undos taken since.
\* It is switched off (phase "idle") where no property reads it.
NoRun == [phase |-> "idle"]

\* Book-keeping of arranges: none yet ("watch"), or one has returned and the
\* selection has or has not changed since.
WatchArrange == [phase |-> "watch"]

Arranged(reselected) == [phase |-> "arranged", reselected |-> reselected]

NewRun(tiles) == [phase |-> "drag", base |-> tiles, commits |-> 0, undos |-> 0]

\* Book-keeping of tile ids: the highest id any tile of the tile list has had
\* so far in the run.
highestId(tiles) ==
    IF tiles = <<>> THEN 0
    ELSE CHOOSE id \in ToSet(Ids(tiles)) : \A other \in ToSet(Ids(tiles)) : other <= id

CountIds(tiles) == [phase |-> "ids", highest |-> highestId(tiles)]

\* The fragment updateURL writes for a tile list: empty for the empty list,
\* and otherwise the encoding that initializer decodes to the list.
encodeHash(tiles) == IF Len(tiles) = 0 THEN Null ELSE Some(tiles)

\* updateURL that is called only for a tile list that has grown.
updateURLCalledOnGrowth(st, st2, type) == Len(st2.tiles) > Len(st.tiles)

\* reducer calls updateURL when innerReducer returned another tiles array
\* than the state's: every branch that builds one also changes a history
\* stack, but for windowResize, which maps the tiles every time.
updateURLCalled(st, st2, type) ==
    \/ st2.undoStack # st.undoStack
    \/ st2.redoStack # st.redoStack
    \/ type = "windowResize"

\* Book-keeping of the URL fragment: the fragment as last written (or as
\* read at the start), the tile list of the latest updateURL call that the
\* debounce timer has not written yet, and the number of writes.
Mirror(hash) == [phase |-> "mirror", persisted |-> hash, pending |-> Null, writes |-> 0]

\* The run after an action of the given handled type took st to st2: pointer
\* events extend the drag phase, a pointerUp that finalized a move counts as
\* a commit, undos follow up to the number of commits, and anything else
\* starts a new run from the tile list it leaves.
track(r, st, st2, type) ==
    IF r.phase = "idle" THEN r
    ELSE IF r.phase = "mirror"
    THEN IF updateURLCalled(st, st2, type) THEN [r EXCEPT !.pending = Some(st2.tiles)]
         ELSE r
    ELSE IF r.phase = "interrupt"
    THEN IF type \in {"undo", "redo"} /\ st2 # st
         THEN [r EXCEPT !.pointers = @ \cup DOMAIN st.activeMoves]
         ELSE r
    ELSE IF r.phase = "ids"
    THEN IF highestId(st2.tiles) > r.highest THEN CountIds(st2.tiles) ELSE r
    ELSE IF r.phase \in {"watch", "arranged"}
    THEN IF type = "arrange" /\ st2.undoStack # st.undoStack THEN Arranged(FALSE)
         ELSE IF r.phase = "arranged" /\ st2.selectedTileIds # st.selectedTileIds
         THEN Arranged(TRUE)
         ELSE r
    ELSE IF \/ type \in {"pointerDown", "pointerMove"}
            \/ type = "pointerUp" /\ st2.undoStack = st.undoStack
    THEN IF r.phase = "drag" THEN r ELSE NewRun(st2.tiles)
    ELSE IF type = "pointerUp"
    THEN IF r.phase = "drag" THEN [r EXCEPT !.commits = @ + 1]
         ELSE [NewRun(st.tiles) EXCEPT !.commits = 1]
    ELSE IF type = "undo" /\ r.undos < r.commits
    THEN [r EXCEPT !.phase = "undo", !.undos = @ + 1]
    ELSE NewRun(st2.tiles)

\* The type of the action whose branch of innerReducer produces the result:
\* keyDown, pointerUp and commitAddTiles hand over to another action.
handedOver(st, action) ==
    IF action.type = "keyDown" /\ keyDownAction(st, action) # Null
    THEN keyDownAction(st, action)[1]
    ELSE action

handledAs(st, action) ==
    LET type == handedOver(st, action).type
        empty == st.inputLetters = Null \/ st.inputLetters = Some(<<>>)
    IN  IF type = "pointerUp" /\ st.inputLetters # Null /\ action.isPrimary
        THEN IF empty THEN "cancelAddTiles" ELSE "commitAddTiles"
        ELSE IF type = "commitAddTiles" /\ empty THEN "cancelAddTiles"
        ELSE type

(***************************************************************************)
(* The state machine: one action per action type of the reducer            *)
(***************************************************************************)
\* The program starts from the URL fragment; the model dispatches `actions`
\* actions from there.
Start(actions) ==
    /\ state \in {initializer(initialState(StartWindow), h) : h \in HashBoards}
    /\ outcome = "returned"
    /\ last = [type |-> "init", changed |-> FALSE]
    /\ budget = actions

Init == Start(MaxSteps) /\ run = NoRun

\* The program takes another action: the last one returned, and the run is
\* within the bound.
Running == outcome = "returned" /\ budget > 0

\* One call of reducer(state, action), whose innerReducer branch yields
\* `outcomes`.
Dispatch(action, outcomes) ==
    /\ budget' = budget - 1
    /\ \E o \in settle(state, outcomes) :
           /\ Bounded(o.state)
           /\ state' = o.state
           /\ outcome' = o.kind
    /\ last' = [type |-> handledAs(state, action), changed |-> state' # state]
    /\ run' = track(run, state, state', handledAs(state, action))

KeyDown ==
    \E action \in KeyEvents :
        /\ Running
        /\ Dispatch(action, keyDown(state, action))

PointerDown ==
    \E point \in Points, p \in Pointers, hasModifier \in BOOLEAN :
        LET action == [type |-> "pointerDown", point |-> point,
                       pointerId |-> p.pointerId, isPrimary |-> p.isPrimary,
                       hasModifier |-> hasModifier]
        IN  /\ Running
            /\ Dispatch(action, pointerDown(state, action))

PointerMove ==
    \E point \in Points, p \in Pointers :
        LET action == [type |-> "pointerMove", point |-> point,
                       pointerId |-> p.pointerId, isPrimary |-> p.isPrimary]
        IN  /\ Running
            /\ Dispatch(action, pointerMove(state, action))

PointerUp ==
    \E point \in Points, p \in Pointers :
        LET action == [type |-> "pointerUp", point |-> point,
                       pointerId |-> p.pointerId, isPrimary |-> p.isPrimary]
        IN  /\ Running
            /\ Dispatch(action, pointerUp(state, action))

WindowResize ==
    \E dimensions \in Windows :
        LET action == [type |-> "windowResize", dimensions |-> dimensions]
        IN  /\ Running
            /\ Dispatch(action, windowResize(state, action))

StartAddTiles ==
    /\ Running
    /\ Dispatch([type |-> "startAddTiles"], startAddTiles(state))

BackspaceAddTilesInput ==
    /\ Running
    /\ Dispatch([type |-> "backspaceAddTilesInput"], backspaceAddTilesInput(state))

ChangeAddTilesInput ==
    \E input \in Inputs :
        LET action == [type |-> "changeAddTilesInput", input |-> input]
        IN  /\ Running
            /\ Dispatch(action, changeAddTilesInput(state, action))

CancelAddTiles ==
    /\ Running
    /\ Dispatch([type |-> "cancelAddTiles"], cancelAddTiles(state))

CommitAddTiles ==
    /\ Running
    /\ Dispatch([type |-> "commitAddTiles"], commitAddTiles(state))

AddTilesFromPrompt ==
    \E text \in Texts :
        LET action == [type |-> "addTilesFromPrompt", text |-> text]
        IN  /\ Running
            /\ Dispatch(action, addTilesFromPrompt(state, action))

SelectAll ==
    /\ Running
    /\ Dispatch([type |-> "selectAll"], selectAll(state))

Shuffle ==
    /\ Running
    /\ Dispatch([type |-> "shuffle"], shuffle(state))

Arrange ==
    /\ Running
    /\ Dispatch([type |-> "arrange"], arrange(state))

Delete ==
    /\ Running
    /\ Dispatch([type |-> "delete"], delete(state))

Undo ==
    /\ Running
    /\ Dispatch([type |-> "undo"], undo(state))

Redo ==
    /\ Running
    /\ Dispatch([type |-> "redo"], redo(state))

EnableTouchUI ==
    /\ Running
    /\ Dispatch([type |-> "enableTouchUI"], enableTouchUI(state))

DisableTouchUI ==
    /\ Running
    /\ Dispatch([type |-> "disableTouchUI"], disableTouchUI(state))

ShowHelp ==
    /\ Running
    /\ Dispatch([type |-> "showHelp"], showHelp(state))

HideHelp ==
    /\ Running
    /\ Dispatch([type |-> "hideHelp"], hideHelp(state))

Next ==
    \/ KeyDown
    \/ PointerDown
    \/ PointerMove
    \/ PointerUp
    \/ WindowResize
    \/ StartAddTiles
    \/ BackspaceAddTilesInput
    \/ ChangeAddTilesInput
    \/ CancelAddTiles
    \/ CommitAddTiles
    \/ AddTilesFromPrompt
    \/ SelectAll
    \/ Shuffle
    \/ Arrange
    \/ Delete
    \/ Undo
    \/ Redo
    \/ EnableTouchUI
    \/ DisableTouchUI
    \/ ShowHelp
    \/ HideHelp

Spec == Init /\ [][Next]_vars

\* Drags and undos, with the run of gestures tracked.
InitDrag == Start(MaxSteps + 5) /\ run = NewRun(state.tiles)

NextDrag ==
    \/ PointerDown
    \/ PointerMove
    \/ PointerUp
    \/ Undo
    \/ Redo

SpecDrag == InitDrag /\ [][NextDrag]_vars

\* Composition next to the other ways of changing the tile list.
InitCompose == Start(MaxSteps + 1) /\ run = NoRun

NextCompose ==
    \/ StartAddTiles
    \/ BackspaceAddTilesInput
    \/ ChangeAddTilesInput
    \/ CancelAddTiles
    \/ CommitAddTiles
    \/ AddTilesFromPrompt
    \/ PointerMove
    \/ PointerUp
    \/ Delete
    \/ Undo
    \/ Redo

SpecCompose == InitCompose /\ [][NextCompose]_vars

\* Two pointers dragging while tiles are deleted and added.
InitTwoPointers == Start(MaxSteps + 2) /\ run = NoRun

NextTwoPointers ==
    \/ PointerDown
    \/ PointerMove
    \/ PointerUp
    \/ Delete
    \/ AddTilesFromPrompt

SpecTwoPointers == InitTwoPointers /\ [][NextTwoPointers]_vars

\* clampShapeTopLeft on its own: `state` holds its arguments, and each step
\* clamps the shape's top left again.
ClampCoords == (-MaxCoord)..MaxCoord

ClampSizes == 1..(MaxCoord + 1)

\* Boundary boxes <<left, right, top, bottom>> with left <= right and
\* top <= bottom.
ClampBoxes ==
    {<<x1, x2, y1, y2>> : x1 \in {-1, 0}, x2 \in {0, 1}, y1 \in {-1, 0}, y2 \in {0, 1}}

InitClamp ==
    /\ state \in [shapeTopLeft : ClampCoords \X ClampCoords,
                   shapeDimensions : ClampSizes \X ClampSizes,
                   boundaries : ClampBoxes]
    /\ outcome = "returned"
    /\ last = [type |-> "init", changed |-> FALSE]
    /\ budget = 2
    /\ run = NoRun

Clamp ==
    /\ budget > 0
    /\ budget' = budget - 1
    /\ state' = [state EXCEPT !.shapeTopLeft =
                     clampShapeTopLeft(state.shapeTopLeft, state.shapeDimensions,
                                       state.boundaries)]
    /\ last' = [type |-> "clampShapeTopLeft", changed |-> state' # state]
    /\ UNCHANGED <<outcome, run>>

SpecClamp == InitClamp /\ [][Clamp]_vars

\* calculateLinearTilePositions on its own: `state` holds its arguments, and
\* the step lays the tiles out.
RowCenters == {<<500 * x, 500 * y>> : x, y \in ClampCoords}

RowBoxes == {<<-h, h, -v, v>> : h \in {300, 700, 1300}, v \in {300, 1300}}

InitRows ==
    /\ state \in [center : RowCenters, tilesCount : 1..(MaxTiles + 1),
                   bbox : RowBoxes, offsets : {<<>>}]
    /\ outcome = "returned"
    /\ last = [type |-> "init", changed |-> FALSE]
    /\ budget = 1
    /\ run = NoRun

LayOutRows ==
    /\ budget > 0
    /\ budget' = budget - 1
    /\ state' = [state EXCEPT !.offsets =
                     calculateLinearTilePositions(state.center, state.tilesCount,
                                                  state.bbox)]
    /\ last' = [type |-> "calculateLinearTilePositions", changed |-> state' # state]
    /\ UNCHANGED <<outcome, run>>

SpecRows == InitRows /\ [][LayOutRows]_vars

\* Arranging boards while the selection changes.
InitArrange == Start(MaxSteps + 1) /\ run = WatchArrange

NextArrange ==
    \/ AddTilesFromPrompt
    \/ SelectAll
    \/ PointerDown
    \/ PointerUp
    \/ Arrange

SpecArrange == InitArrange /\ [][NextArrange]_vars

\* Composing from the keyboard: the space bar or the add button enters
\* composition, typed characters arrive as changeAddTilesInput, and Enter,
\* Escape and Backspace arrive as key-down events, while the pointer moves.
InitTyping == Start(MaxSteps + 1) /\ run = NoRun

NextTyping ==
    \/ StartAddTiles
    \/ ChangeAddTilesInput
    \/ KeyDown
    \/ PointerMove

SpecTyping == InitTyping /\ [][NextTyping]_vars

\* Pointer gestures with one or two pointers, on the board or while a
\* composition started from the add button is open.
InitGestures == Start(MaxSteps + 1) /\ run = NoRun

NextGestures ==
    \/ PointerDown
    \/ PointerMove
    \/ PointerUp
    \/ StartAddTiles
    \/ SelectAll

SpecGestures == InitGestures /\ [][NextGestures]_vars

\* Tiles are added, removed and brought back.
InitIds == Start(MaxSteps + 1) /\ run = CountIds(state.tiles)

NextIds ==
    \/ AddTilesFromPrompt
    \/ SelectAll
    \/ Delete
    \/ Undo

SpecIds == InitIds /\ [][NextIds]_vars

\* Selecting and arranging on a board of three tiles read from the URL
\* fragment.
ThreeTiles ==
    placeNewTiles(initialState(StartWindow), <<"a", "b", "c">>, scaleHalf(StartWindow))

InitToggle ==
    /\ state = initializer(initialState(StartWindow), Some(ThreeTiles))
    /\ outcome = "returned"
    /\ last = [type |-> "init", changed |-> FALSE]
    /\ budget = MaxSteps + 2
    /\ run = NoRun

NextToggle ==
    \/ PointerDown
    \/ PointerMove
    \/ PointerUp
    \/ SelectAll
    \/ Arrange

SpecToggle == InitToggle /\ [][NextToggle]_vars

\* Shuffling and arranging a part or all of the three-tile board.
InitLayout ==
    /\ state = initializer(initialState(StartWindow), Some(ThreeTiles))
    /\ outcome = "returned"
    /\ last = [type |-> "init", changed |-> FALSE]
    /\ budget = MaxSteps
    /\ run = NoRun

NextLayout ==
    \/ PointerDown
    \/ SelectAll
    \/ Shuffle
    \/ Arrange

SpecLayout == InitLayout /\ [][NextLayout]_vars

\* Drags, composition, undo and redo on a board that tiles were just added
\* to from the prompt; the run keeps the pointers whose move an undo or redo
\* discarded.
InitInterrupt ==
    /\ \E h \in HashBoards :
           \E o \in reducer(initializer(initialState(StartWindow), h),
                            [type |-> "addTilesFromPrompt", text |-> <<"a">>]) :
               o.kind = "returned" /\ state = o.state
    /\ outcome = "returned"
    /\ last = [type |-> "init", changed |-> FALSE]
    /\ budget = MaxSteps + 1
    /\ run = [phase |-> "interrupt", pointers |-> {}]

NextInterrupt ==
    \/ PointerDown
    \/ PointerMove
    \/ PointerUp
    \/ StartAddTiles
    \/ ChangeAddTilesInput
    \/ Undo
    \/ Redo

SpecInterrupt == InitInterrupt /\ [][NextInterrupt]_vars

\* The debounce timer of updateURL fires: the pending tile list is written
\* to the URL fragment.  A reducer that never returns keeps the timer from
\* firing.
UpdateURL ==
    /\ run.phase = "mirror"
    /\ run.pending # Null
    /\ outcome # "hung"
    /\ run' = [run EXCEPT !.persisted = encodeHash(run.pending[1]),
                          !.pending = Null,
                          !.writes = @ + 1]
    /\ last' = [type |-> "updateURL", changed |-> FALSE]
    /\ UNCHANGED <<state, outcome, budget>>

\* The tile list changes while the URL fragment follows it.
InitMirror ==
    \E hash \in HashBoards :
        /\ state = initializer(initialState(StartWindow), hash)
        /\ run = Mirror(hash)
        /\ outcome = "returned"
        /\ last = [type |-> "init", changed |-> FALSE]
        /\ budget = MaxSteps

MirrorActions ==
    \/ AddTilesFromPrompt
    \/ SelectAll
    \/ Delete
    \/ Undo
    \/ Redo
    \/ WindowResize
    \/ Shuffle

NextMirror == MirrorActions \/ UpdateURL

\* The timer fires 100 ms after the latest call of updateURL.
SpecMirror == InitMirror /\ [][NextMirror]_vars /\ WF_vars(UpdateURL)

(***************************************************************************)
(* Undo and redo history                                                   *)
(***************************************************************************)
IsReturned(o) == o.kind = "returned"

PointerUpOf(p) ==
    [type |-> "pointerUp", point |-> StartWindow,
     pointerId |-> p.pointerId, isPrimary |-> p.isPrimary]

\* The handlers that add, shuffle, arrange or delete tiles; commitAddTiles is
\* the handler of a commit with text (one without text is handled as
\* cancelAddTiles).
SemanticTypes == {"addTilesFromPrompt", "shuffle", "arrange", "delete", "commitAddTiles"}

\* The step was a pointerUp that finalized a move: it took the pointer's
\* entry out of activeMoves.
finalizedMove ==
    /\ last'.type = "pointerUp"
    /\ DOMAIN state'.activeMoves # DOMAIN state.activeMoves

\* C1: every semantic mutation (commitAddTiles with text, addTilesFromPrompt,
\* a pointerUp that finalizes a move, shuffle, arrange, delete) that returns
\* has appended exactly one entry to undoStack, the tile list as it was before
\* the action, and has left redoStack empty.
C1_MutationPushesSnapshot ==
    [][(outcome' = "returned" /\ (last'.type \in SemanticTypes \/ finalizedMove)) =>
           /\ state'.undoStack = Append(state.undoStack, state.tiles)
           /\ state'.redoStack = <<>>]_vars

\* A second semantic mutation has changed the tile list.
C1_Witness ==
    /\ last.type \in SemanticTypes
    /\ last.changed
    /\ outcome = "returned"
    /\ Len(state.undoStack) >= 2
    /\ state.undoStack[Len(state.undoStack)] # state.tiles

\* C2: after n committed drag gestures (pointerDown on a tile, pointerMoves,
\* pointerUp) and n undos, the tile list is the one before the first gesture,
\* in ids, chars, offsets and order.
C2_DragsUndoneRestoreTiles ==
    (run.phase = "undo" /\ run.undos = run.commits) => state.tiles = run.base

\* Two drags that moved tiles were committed and both undone.
C2_Witness ==
    /\ run.phase = "undo"
    /\ run.commits = 2
    /\ run.undos = 2
    /\ Len(state.redoStack) = 2
    /\ state.redoStack[1] # state.tiles
    /\ state.redoStack[2] # state.redoStack[1]

\* C3: undo then redo is the identity on the tile list and on both stacks,
\* in every state that has something to undo.
C3_UndoRedoIdentity ==
    state.undoStack # <<>> =>
        \A u \in reducer(state, [type |-> "undo"]) :
            \A r \in reducer(u.state, [type |-> "redo"]) :
                /\ IsReturned(u) /\ IsReturned(r)
                /\ r.state.tiles = state.tiles
                /\ r.state.undoStack = state.undoStack
                /\ r.state.redoStack = state.redoStack

\* A redo has restored a tile list that differs from the undone one.
C3_Witness ==
    /\ last.type = "redo"
    /\ last.changed
    /\ state.redoStack = <<>>
    /\ state.undoStack # <<>>
    /\ state.undoStack[Len(state.undoStack)] # state.tiles

\* C4: undo with an empty undoStack and redo with an empty redoStack return
\* the state unchanged in every field.
C4_EmptyStackNoOp ==
    /\ state.undoStack = <<>> => reducer(state, [type |-> "undo"]) = Returned(state)
    /\ state.redoStack = <<>> => reducer(state, [type |-> "redo"]) = Returned(state)

\* An undo with nothing to undo was dispatched during a drag and changed
\* nothing.
C4_Witness ==
    /\ last.type = "undo"
    /\ ~last.changed
    /\ state.undoStack = <<>>
    /\ isMoving(state)

(***************************************************************************)
(* Totality, selection and tile ids                                        *)
(***************************************************************************)
\* C5: no action raises a runtime error, whatever the state it is applied in.
C5_NoRuntimeError == outcome # "threw"

\* C6: selectedTileIds holds only ids of tiles of the tile list.
C6_SelectionWithinTiles == ToSet(state.selectedTileIds) \subseteq ToSet(Ids(state.tiles))

\* C7: no two tiles of the tile list share an id.
C7_UniqueTileIds ==
    \A i, j \in 1..Len(state.tiles) : i # j => state.tiles[i].id # state.tiles[j].id

(***************************************************************************)
(* Gestures                                                                *)
(***************************************************************************)
\* Pointers a and b each have an active move, over disjoint tiles.
dragDisjointTiles(st, a, b) ==
    /\ a # b
    /\ a \in DOMAIN st.activeMoves
    /\ b \in DOMAIN st.activeMoves
    /\ ToSet(st.activeMoves[a].tileIds) \cap ToSet(st.activeMoves[b].tileIds) = {}

\* `after` differs from `before` at most in the offsets of the tiles of
\* tileIds.
onlyOffsetsChanged(before, after, tileIds) ==
    /\ Len(after) = Len(before)
    /\ \A i \in 1..Len(before) :
           \/ after[i] = before[i]
           \/ /\ includes(tileIds, before[i].id)
              /\ after[i] = [before[i] EXCEPT !.offset = after[i].offset]

\* C8: when pointers A and B each have an active move over disjoint tiles,
\* pointerUp for A changes only the offsets of A's tiles, removes only A's
\* entry from activeMoves and leaves B's entry and B's tiles as they are.
C8_PointerUpCommitsOnlyItsMove ==
    \A p, q \in Pointers :
        (dragDisjointTiles(state, p.pointerId, q.pointerId) /\ state.inputLetters = Null) =>
            \A o \in reducer(state, PointerUpOf(p)) :
                /\ IsReturned(o)
                /\ onlyOffsetsChanged(state.tiles, o.state.tiles,
                                      state.activeMoves[p.pointerId].tileIds)
                /\ DOMAIN o.state.activeMoves = DOMAIN state.activeMoves \ {p.pointerId}
                /\ o.state.activeMoves[q.pointerId] = state.activeMoves[q.pointerId]

\* C9: a selection box and a move are never active together.
C9_SelectionExcludesMoves == ~(state.activeSelection # Null /\ isMoving(state))

\* A pointerDown arrived during a selection box and was ignored.
C9_Witness ==
    /\ last.type = "pointerDown"
    /\ ~last.changed
    /\ state.activeSelection # Null
    /\ state.inputLetters = Null

(***************************************************************************)
(* Shuffle                                                                 *)
(***************************************************************************)
\* Some target tile has another offset in `after` than in `before`.
someTargetMoved(before, after) ==
    \E i \in 1..Len(before.tiles) :
        /\ includes(targetTileIds(before), before.tiles[i].id)
        /\ after.tiles[i].offset # before.tiles[i].offset

\* C10: a shuffle of two or more target tiles that returns has given some
\* target tile another offset.
C10_ShuffleChangesAssignment ==
    [][(/\ last'.type = "shuffle"
        /\ outcome' = "returned"
        /\ Len(targetTileIds(state)) >= 2) => someTargetMoved(state, state')]_vars

\* A shuffle of two or more tiles has returned.
C10_Witness ==
    /\ last.type = "shuffle"
    /\ outcome = "returned"
    /\ Len(state.tiles) >= 2
    /\ state.undoStack # <<>>
    /\ state.undoStack[Len(state.undoStack)] # state.tiles

\* C11: a shuffle whose target set is exactly one tile returns and leaves the
\* tile list, that tile's offset included, as it was.
C11_ShuffleOfOneTileCompletes ==
    Len(targetTileIds(state)) = 1 =>
        \A o \in reducer(state, [type |-> "shuffle"]) :
            IsReturned(o) /\ o.state.tiles = state.tiles

(***************************************************************************)
(* Arrange                                                                 *)
(***************************************************************************)
\* The offsets the target tiles of `before` have in `after`, in target order.
targetOffsets(before, after) ==
    [i \in 1..Len(targetTileIds(before)) |->
        tileById(after.tiles, targetTileIds(before)[i]).offset]

\* The layout an arrange that took `before` to `after` has put the target
\* tiles on: the row packing or the circle around their centroid.
layoutOf(before, after) ==
    LET n == Len(targetTileIds(before))
        centroid == roundedCentroid(targetOffsets(before, before))
        offsetBBox == calculateSmallOffsetBBox(before.windowDimensions)
        line == calculateLinearTilePositions(
                    add(centroid, <<tileSize \div 2, tileSize \div 2>>), n, offsetBBox)
        circle == calculateCircularTilePositions(centroid, n, offsetBBox)
    IN  IF targetOffsets(before, after) \in shuffled(line) THEN "line"
        ELSE IF targetOffsets(before, after) \in shuffled(circle) THEN "circle"
        ELSE "other"

\* The state the arrange that led to st started from: arrange pushes its
\* tile list and changes neither the selection nor the window.
beforeArrange(st) == [st EXCEPT !.tiles = st.undoStack[Len(st.undoStack)]]

\* The step is an arrange of three or more target tiles that returned.
arrangedThreeOrMore ==
    /\ last'.type = "arrange"
    /\ outcome' = "returned"
    /\ Len(targetTileIds(state)) >= 3

\* The step is the second of two arranges in a row and uses the layout the
\* first did not use.
secondArrangeUsesOtherLayout ==
    (last.type = "arrange" /\ arrangedThreeOrMore) =>
        {layoutOf(beforeArrange(state), state), layoutOf(state, state')}
            = {"line", "circle"}

\* The step is an arrange that follows an arrange and a change of the
\* selection since, and uses `layout`.
arrangeAfterSelectionChangeUses(layout) ==
    (run.phase = "arranged" /\ run.reselected /\ arrangedThreeOrMore) =>
        layoutOf(state, state') = layout

\* C12 (as the code has it): two consecutive arranges on the same three or
\* more target tiles use the two different layouts, and the arrange after a
\* change of the selection uses the circle layout.
C12_ArrangeTogglesAndRestartsWithCircle ==
    [][secondArrangeUsesOtherLayout /\ arrangeAfterSelectionChangeUses("circle")]_vars

\* C12 (as stated): two consecutive arranges on the same three or more target
\* tiles use the two different layouts, and the arrange after a change of the
\* selection uses the line layout.
C12_ArrangeTogglesAndRestartsWithLine ==
    [][secondArrangeUsesOtherLayout /\ arrangeAfterSelectionChangeUses("line")]_vars

\* Three tiles were arranged, all selected, and arranged again in a circle.
C12_Witness ==
    /\ last.type = "arrange"
    /\ outcome = "returned"
    /\ Len(state.selectedTileIds) >= 3
    /\ Len(state.undoStack) >= 3
    /\ state.showingArrangeToLine
    /\ layoutOf(beforeArrange(state), state) = "circle"

(***************************************************************************)
(* Window resize                                                           *)
(***************************************************************************)
WindowResizeTo(dimensions) == [type |-> "windowResize", dimensions |-> dimensions]

\* C13: after windowResize to dimensions D every tile's offset is its old
\* offset clamped into the small offset bounding box of D (tiles inside that
\* box stay, tiles outside it are moved into it).
C13_ResizeClampsIntoNewWindow ==
    \A dimensions \in Windows :
        \A o \in reducer(state, WindowResizeTo(dimensions)) :
            /\ IsReturned(o)
            /\ Len(o.state.tiles) = Len(state.tiles)
            /\ \A i \in 1..Len(state.tiles) :
                   o.state.tiles[i].offset =
                       clampShapeTopLeft(state.tiles[i].offset, <<tileSize, tileSize>>,
                                         calculateSmallOffsetBBox(dimensions))

\* C14: windowResize leaves undoStack, redoStack, selectedTileIds,
\* activeMoves, activeSelection and inputLetters as they were.
C14_ResizeKeepsHistoryAndGestures ==
    \A dimensions \in Windows :
        \A o \in reducer(state, WindowResizeTo(dimensions)) :
            /\ IsReturned(o)
            /\ o.state.undoStack = state.undoStack
            /\ o.state.redoStack = state.redoStack
            /\ o.state.selectedTileIds = state.selectedTileIds
            /\ o.state.activeMoves = state.activeMoves
            /\ o.state.activeSelection = state.activeSelection
            /\ o.state.inputLetters = state.inputLetters

\* The window was resized while a tile was selected and the history was not
\* empty.
C14_Witness ==
    /\ last.type = "windowResize"
    /\ last.changed
    /\ state.undoStack # <<>>
    /\ state.selectedTileIds # <<>>
    /\ state.windowDimensions # StartWindow

(***************************************************************************)
(* clampShapeTopLeft                                                       *)
(***************************************************************************)
\* C15: clamping the result of a clamp again returns the same point.
C15_ClampIsIdempotent ==
    [][last.type = "clampShapeTopLeft" =>
           state'.shapeTopLeft = state.shapeTopLeft]_vars

\* The shape is longer than the boundary on the axis (1: x, 2: y).
longerThanBoundary(args, axis) ==
    args.shapeDimensions[axis] > args.boundaries[2 * axis] - args.boundaries[2 * axis - 1]

\* C16: on every axis on which the shape is longer than the boundary,
\* clampShapeTopLeft returns the coordinate unchanged.
C16_ClampLeavesTooLongAxisAlone ==
    [][\A axis \in {1, 2} :
           longerThanBoundary(state, axis) =>
               state'.shapeTopLeft[axis] = state.shapeTopLeft[axis]]_vars

(***************************************************************************)
(* Row packing                                                             *)
(***************************************************************************)
\* Index i (from 0) sits at row floor(i / perRow), column i mod perRow of a
\* grid of tile-plus-gap cells that starts at the first offset.
rowMajor(offsets, perRow) ==
    \A i \in 1..Len(offsets) :
        offsets[i] = << offsets[1][1] + ((i - 1) % perRow) * (tileSize + tileGap),
                       offsets[1][2] + ((i - 1) \div perRow) * (tileSize + tileGap) >>

\* The tile-sized squares at the two offsets overlap.
squaresOverlap(o1, o2) ==
    /\ o1[1] < o2[1] + tileSize /\ o2[1] < o1[1] + tileSize
    /\ o1[2] < o2[2] + tileSize /\ o2[2] < o1[2] + tileSize

\* C17: calculateLinearTilePositions for n tiles returns exactly n offsets,
\* in row-major order, no two of whose tile-sized squares overlap.
C17_RowPackingIsRowMajorWithoutOverlap ==
    last.type = "calculateLinearTilePositions" =>
        /\ Len(state.offsets) = state.tilesCount
        /\ \E perRow \in 1..state.tilesCount : rowMajor(state.offsets, perRow)
        /\ \A i, j \in 1..Len(state.offsets) :
               i # j => ~squaresOverlap(state.offsets[i], state.offsets[j])

\* Four tiles were laid out in two rows of two.
C17_Witness ==
    /\ last.type = "calculateLinearTilePositions"
    /\ state.tilesCount = 4
    /\ rowMajor(state.offsets, 2)
    /\ state.offsets[1] # state.center

Enter == Key("Enter", FALSE, FALSE)

\* The states reached by entering composition, typing the two inputs and
\* pressing Enter, each step taken from a returned state of the one before.
typedAndCommitted(st, first, second) ==
    { o4.state :
        o4 \in UNION { reducer(o3.state, Enter) :
        o3 \in { o \in UNION { reducer(o2.state, [type |-> "changeAddTilesInput",
                                                  input |-> second]) :
        o2 \in { o \in UNION { reducer(o1.state, [type |-> "changeAddTilesInput",
                                                  input |-> first]) :
        o1 \in { o \in reducer(st, [type |-> "startAddTiles"]) : IsReturned(o) } }
                 : IsReturned(o) } } : IsReturned(o) } } }

\* Exactly two tiles were appended, with the next two ids, not ghosts, in
\* one row a tile and a gap apart, and they are the appearing tiles.
twoTilesAppendedSideBySide(before, after) ==
    LET n == lastTileId(before.tiles)
        k == Len(before.tiles)
    IN  /\ Len(after.tiles) = k + 2
        /\ SubSeq(after.tiles, 1, k) = before.tiles
        /\ after.tiles[k + 1].id = n + 1
        /\ after.tiles[k + 2].id = n + 2
        /\ ~after.tiles[k + 1].ghost
        /\ ~after.tiles[k + 2].ghost
        /\ after.tiles[k + 2].offset[2] = after.tiles[k + 1].offset[2]
        /\ after.tiles[k + 2].offset[1] =
               after.tiles[k + 1].offset[1] + tileSize + tileGap
        /\ after.appearingTileIds = <<n + 1, n + 2>>

\* The window's placement area is at least as wide as a row of two tiles.
wideEnoughForTwo(st) ==
    LET bbox == calculateSmallOffsetBBox(st.windowDimensions)
    IN  calculateTilesSize(2) <= bbox[2] - bbox[1]

\* A row of two tiles centered on the primary pointer lies inside the
\* placement area.
rowOfTwoFitsAtPointer(st) ==
    LET bbox == calculateSmallOffsetBBox(st.windowDimensions)
        center == subtract(st.primaryPointerPosition, scaleHalf(st.windowDimensions))
        half == calculateTilesSize(2) \div 2
    IN  center[1] - half >= bbox[1] /\ center[1] + half <= bbox[2]

readyToCompose(st) == st.inputLetters = Null /\ ~st.showingHelp

\* C18: from a state outside composition and help whose last tile id is n,
\* entering composition, typing two characters and pressing Enter appends
\* exactly two tiles with ids n+1 and n+2, ghost false, at the same vertical
\* offset and a tile-plus-gap apart horizontally, and appearingTileIds is
\* exactly those two ids, provided that a row of two tiles centered on the
\* primary pointer position fits inside the placement area.
C18_TypedPairLandsInOneRowAtPointer ==
    (readyToCompose(state) /\ rowOfTwoFitsAtPointer(state)) =>
        \A first \in Inputs, second \in Inputs :
            /\ typedAndCommitted(state, first, second) # {}
            /\ \A after \in typedAndCommitted(state, first, second) :
                   twoTilesAppendedSideBySide(state, after)

\* C18 as stated: the same with the only condition that the window is wide
\* enough for two tiles in a row.
C18_TypedPairLandsInOneRow ==
    (readyToCompose(state) /\ wideEnoughForTwo(state)) =>
        \A first \in Inputs, second \in Inputs :
            /\ typedAndCommitted(state, first, second) # {}
            /\ \A after \in typedAndCommitted(state, first, second) :
                   twoTilesAppendedSideBySide(state, after)

\* Enter has just committed a typed pair into one row.
C18_Witness ==
    /\ last.type = "commitAddTiles"
    /\ Len(state.appearingTileIds) = 2
    /\ Len(state.undoStack) > 0
    /\ rowOfTwoFitsAtPointer(state)
    /\ twoTilesAppendedSideBySide(
           [state EXCEPT !.tiles = state.undoStack[Len(state.undoStack)]], state)

ghostFree(tiles) == \A i \in 1..Len(tiles) : ~tiles[i].ghost

noGhostCommitted(st) ==
    /\ ghostFree(st.tiles)
    /\ \A i \in 1..Len(st.undoStack) : ghostFree(st.undoStack[i])
    /\ \A i \in 1..Len(st.redoStack) : ghostFree(st.redoStack[i])

\* C19: no tile of the tile list or of an undo or redo snapshot is a ghost,
\* in every reachable state and in every state that addTilesFromPrompt or
\* commitAddTiles returns from it, the empty prompt text included.
C19_NoGhostCommitted ==
    /\ noGhostCommitted(state)
    /\ \A text \in Texts \cup {<<>>} :
           \A o \in reducer(state, [type |-> "addTilesFromPrompt", text |-> text]) :
               noGhostCommitted(o.state)
    /\ \A o \in reducer(state, [type |-> "commitAddTiles"]) :
           noGhostCommitted(o.state)

Backspace == Key("Backspace", FALSE, FALSE)

Escape == Key("Escape", FALSE, FALSE)

composingNothing(st) == st.inputLetters = Some(<<>>) /\ ~st.showingHelp

cancelled(before, o) ==
    /\ IsReturned(o)
    /\ o.state.inputLetters = Null
    /\ o.state.inputPreview = <<>>
    /\ o.state.tiles = before.tiles
    /\ o.state.undoStack = before.undoStack
    /\ o.state.redoStack = before.redoStack

\* C20: in composition mode with empty text, a Backspace key-down and an
\* Escape key-down both cancel composition (inputLetters null, inputPreview
\* empty) and leave the tile list and both history stacks as they were.
C20_BackspaceOnEmptyCancelsLikeEscape ==
    composingNothing(state) =>
        /\ \A o \in reducer(state, Backspace) : cancelled(state, o)
        /\ \A o \in reducer(state, Escape) : cancelled(state, o)
        /\ reducer(state, Backspace) = reducer(state, Escape)

PrimaryPointerUps ==
    {[type |-> "pointerUp", point |-> point, pointerId |-> 1, isPrimary |-> TRUE] :
        point \in Points}

\* C21: committing an empty composition, by the commitAddTiles action, by
\* Enter or by a primary pointerUp, returns what cancelAddTiles returns:
\* composition has ended, the preview is discarded, and the tile list and
\* both history stacks are as before.
C21_EmptyCommitCancels ==
    composingNothing(state) =>
        \A action \in {[type |-> "commitAddTiles"], Enter} \cup PrimaryPointerUps :
            /\ reducer(state, action) = reducer(state, [type |-> "cancelAddTiles"])
            /\ \A o \in reducer(state, action) : cancelled(state, o)

\* A primary pointerUp has just ended an empty composition on a board with
\* tiles, leaving the board as it was.
C21_Witness ==
    /\ last.type = "cancelAddTiles"
    /\ last.changed
    /\ state.inputLetters = Null
    /\ state.inputPreview = <<>>
    /\ state.tiles # <<>>

PointerDowns(pointers) ==
    {[type |-> "pointerDown", point |-> point, pointerId |-> p.pointerId,
      isPrimary |-> p.isPrimary, hasModifier |-> hasModifier] :
        point \in Points, p \in pointers, hasModifier \in BOOLEAN}

NonPrimary == {p \in Pointers : ~p.isPrimary}

Primary == {p \in Pointers : p.isPrimary}

\* C22: a pointerDown of a non-primary pointer never starts a selection box
\* (activeSelection stays null), and a selection box that is active outside
\* composition is ended by the primary pointer's pointerUp.
C22_OnlyPrimaryStartsSelection ==
    /\ state.activeSelection = Null =>
           \A action \in PointerDowns(NonPrimary) :
               \A o \in reducer(state, action) : o.state.activeSelection = Null
    /\ (state.activeSelection # Null /\ state.inputLetters = Null) =>
           \A action \in PrimaryPointerUps :
               \A o \in reducer(state, action) : o.state.activeSelection = Null

\* C23: every tile that addTilesFromPrompt or commitAddTiles appends has an
\* id greater than the id of every tile there has been so far in the run.
C23_NewIdsAboveEveryEarlierId ==
    [][last'.type \in {"addTilesFromPrompt", "commitAddTiles"} =>
          \A i \in (Len(state.tiles) + 1)..Len(state'.tiles) :
              state'.tiles[i].id > run.highest]_vars

\* C24: while inputLetters is non-null, a pointerDown of any pointer, at any
\* point, with or without modifier, returns the state unchanged.
C24_ComposingIgnoresPointerDown ==
    [][(state.inputLetters # Null /\ last'.type = "pointerDown") => state' = state]_vars

\* A pointerDown has arrived during composition on a board with tiles.
C24_Witness ==
    /\ last.type = "pointerDown"
    /\ state.inputLetters # Null
    /\ state.tiles # <<>>
    /\ outcome = "returned"

gestureActive(st) == st.activeSelection # Null \/ isMoving(st)

withoutGestures(st) == [st EXCEPT !.activeSelection = Null, !.activeMoves = <<>>]

\* A primary pointerDown returns from st what it returns from st without its
\* gestures, and the tile list and both stacks of st.
resetsThenProcesses(st) ==
    \A action \in PointerDowns(Primary) :
        /\ reducer(st, action) = reducer(withoutGestures(st), action)
        /\ \A o \in reducer(st, action) :
               /\ IsReturned(o)
               /\ o.state.tiles = st.tiles
               /\ o.state.undoStack = st.undoStack
               /\ o.state.redoStack = st.redoStack

\* C25: outside composition, a primary pointerDown received while a
\* selection box or a move is active yields exactly the state obtained by
\* clearing activeSelection and activeMoves and then processing the same
\* pointerDown, with the tile list and the history stacks unchanged.
C25_PrimaryDownResetsGesturesOutsideComposition ==
    (gestureActive(state) /\ state.inputLetters = Null) => resetsThenProcesses(state)

\* C25 as stated: the same in every state with an active gesture.
C25_PrimaryDownResetsGestures ==
    gestureActive(state) => resetsThenProcesses(state)

\* Two actions into the run a pointerDown has left a selection box, one tile
\* selected and no move: the first action was a pointerDown that started a
\* move of that tile, and the second a primary pointerDown that discarded
\* the move (a non-primary one is ignored during a move).
C25_Witness ==
    /\ budget = MaxSteps - 1
    /\ last.type = "pointerDown"
    /\ last.changed
    /\ state.activeSelection # Null
    /\ ~isMoving(state)
    /\ Len(state.selectedTileIds) = 1

PlainPointerDowns == {action \in PointerDowns(Pointers) : ~action.hasModifier}

onTile(st, action) == topTileAtPoint(st, action.point) # Null

touchedId(st, action) == topTileAtPoint(st, action.point)[1].id

inSomeMove(st, id) ==
    \E p \in DOMAIN st.activeMoves : includes(st.activeMoves[p].tileIds, id)

\* The pointerDown on a tile returns from st a state with a move of its
\* pointer, and the move's tiles and the selection are those described for
\* the selection and the moves of `base`.
startsMoveAsDescribed(st, base, action) ==
    LET id == touchedId(st, action)
        selected == includes(base.selectedTileIds, id)
        moving == DOMAIN base.activeMoves # {}
    IN  \A o \in reducer(st, action) :
            /\ IsReturned(o)
            /\ action.pointerId \in DOMAIN o.state.activeMoves
            /\ o.state.activeMoves[action.pointerId].origin = action.point
            /\ o.state.activeMoves[action.pointerId].preview = <<>>
            /\ o.state.activeMoves[action.pointerId].tileIds =
                   IF ~moving /\ selected THEN base.selectedTileIds ELSE <<id>>
            /\ (~moving /\ ~selected) => o.state.selectedTileIds = <<id>>
            /\ moving => ToSet(o.state.selectedTileIds) =
                             ToSet(base.selectedTileIds) \cup {id}

\* The state a pointerDown is processed in: a primary pointer's stale
\* gestures are discarded first.
afterReset(st, action) == IF action.isPrimary THEN withoutGestures(st) ELSE st

\* C26: outside composition, a pointerDown without modifier on a tile that
\* is not in an active move, with no selection box active, starts a move of
\* the whole selection when no move is active and the tile is selected, and
\* of the touched tile alone otherwise; the selection becomes the touched
\* tile alone when no move is active and the tile was unselected, and gains
\* it when a move is active.  For a primary pointer the moves and the
\* selection box are those left after its reset of the gestures, that is none.
C26_DownOnTileStartsMoveAfterReset ==
    \A action \in PlainPointerDowns :
        LET base == afterReset(state, action)
        IN  (/\ state.inputLetters = Null
             /\ onTile(state, action)
             /\ base.activeSelection = Null
             /\ ~inSomeMove(base, touchedId(state, action)))
            => startsMoveAsDescribed(state, base, action)

\* C26 as stated: every pointerDown without modifier on a tile does so, with
\* the moves and the selection of the state it arrives in.
C26_DownOnTileStartsMove ==
    \A action \in PlainPointerDowns :
        onTile(state, action) => startsMoveAsDescribed(state, state, action)

\* A second pointer has just started a move of its own tile beside the first
\* pointer's move, and the selection has gained that tile.
C26_Witness ==
    /\ last.type = "pointerDown"
    /\ last.changed
    /\ DOMAIN state.activeMoves = {1, 2}
    /\ state.activeMoves[1].tileIds # state.activeMoves[2].tileIds
    /\ Len(state.activeMoves[2].tileIds) = 1
    /\ ToSet(state.selectedTileIds) =
           ToSet(state.activeMoves[1].tileIds) \cup ToSet(state.activeMoves[2].tileIds)

\* Pointer-downs that select: with a modifier held, or on no tile.
selects(st, action) == action.hasModifier \/ ~onTile(st, action)

\* The pointerDown returns from st a state with a selection box seeded with
\* the touched tile, deselecting iff that tile is selected, and the selection
\* kept under a modifier and cleared otherwise.
startsSelectionAsDescribed(st, action) ==
    LET touched == topTileAtPoint(st, action.point)
        selected == touched # Null /\ includes(st.selectedTileIds, touched[1].id)
    IN  \A o \in reducer(st, action) :
            /\ IsReturned(o)
            /\ o.state.activeMoves = <<>>
            /\ o.state.activeSelection =
                   Some([origin |-> action.point,
                         tileIds |-> IF touched = Null THEN <<>> ELSE <<touched[1].id>>,
                         deselecting |-> selected])
            /\ o.state.selectedTileIds =
                   IF action.hasModifier THEN st.selectedTileIds ELSE <<>>

\* C27: outside composition, a pointerDown with a modifier held, or landing
\* on no tile, while no move is active starts a selection box: activeSelection
\* is seeded with the touched tile's id (or nothing), deselecting is true
\* exactly when the touched tile was selected, and selectedTileIds is kept
\* under a modifier and cleared otherwise; for a non-primary pointer this
\* needs that no selection box is active yet.
C27_DownStartsSelectionOutsideComposition ==
    \A action \in PointerDowns(Pointers) :
        (/\ selects(state, action)
         /\ ~isMoving(state)
         /\ state.inputLetters = Null
         /\ action.isPrimary \/ state.activeSelection = Null)
        => startsSelectionAsDescribed(state, action)

\* C27 as stated: every such pointerDown while no move is active does so.
C27_DownStartsSelection ==
    \A action \in PointerDowns(Pointers) :
        (selects(state, action) /\ ~isMoving(state))
        => startsSelectionAsDescribed(state, action)

\* A pointerDown with a modifier on a selected tile has started a
\* deselecting box seeded with the tile, and the selection was kept.
C27_Witness ==
    /\ last.type = "pointerDown"
    /\ last.changed
    /\ state.activeSelection # Null
    /\ state.activeSelection[1].deselecting
    /\ Len(state.activeSelection[1].tileIds) = 1
    /\ includes(state.selectedTileIds, state.activeSelection[1].tileIds[1])

\* C28: a primary pointerUp that ends a selection box (one is active, outside
\* composition) sets activeSelection to null and selectedTileIds to the
\* prior selection minus the box's tile ids when the box is deselecting, and
\* to the union of both otherwise; the tile list and both history stacks
\* are unchanged.
C28_PointerUpFinalizesSelection ==
    (state.activeSelection # Null /\ state.inputLetters = Null) =>
        \A action \in PrimaryPointerUps :
            \A o \in reducer(state, action) :
                LET prior == ToSet(state.selectedTileIds)
                    box == ToSet(state.activeSelection[1].tileIds)
                IN  /\ IsReturned(o)
                    /\ o.state.activeSelection = Null
                    /\ ToSet(o.state.selectedTileIds) =
                           IF state.activeSelection[1].deselecting
                           THEN prior \ box ELSE prior \cup box
                    /\ Len(o.state.selectedTileIds) =
                           Cardinality(ToSet(o.state.selectedTileIds))
                    /\ o.state.tiles = state.tiles
                    /\ o.state.undoStack = state.undoStack
                    /\ o.state.redoStack = state.redoStack

\* Two actions into the run a pointerUp has changed the state without an
\* entry in the history and tiles are selected: the first action started a
\* selection box on a tile, and the pointerUp added the box's tile to the
\* empty selection.
C28_Witness ==
    /\ last.type = "pointerUp"
    /\ last.changed
    /\ budget = MaxSteps - 1
    /\ state.activeSelection = Null
    /\ state.undoStack = <<>>
    /\ state.selectedTileIds # <<>>

\* C29: a pointerMove changes no field of the state but activeMoves,
\* activeSelection, inputPreview and primaryPointerPosition; the tile list,
\* undoStack, redoStack and selectedTileIds are as before.
C29_PointerMoveOnlyPreviews ==
    [][last'.type = "pointerMove" =>
          state' = [state EXCEPT
                       !.activeMoves = state'.activeMoves,
                       !.activeSelection = state'.activeSelection,
                       !.inputPreview = state'.inputPreview,
                       !.primaryPointerPosition = state'.primaryPointerPosition]]_vars

\* A pointerMove has stretched a selection box over tiles that are not
\* selected.
C29_Witness ==
    /\ last.type = "pointerMove"
    /\ last.changed
    /\ state.activeSelection # Null
    /\ \E i \in 1..Len(state.activeSelection[1].tileIds) :
           ~includes(state.selectedTileIds, state.activeSelection[1].tileIds[i])

PointerMoves ==
    {[type |-> "pointerMove", point |-> point, pointerId |-> p.pointerId,
      isPrimary |-> p.isPrimary] : point \in Points, p \in Pointers}

\* The pointerMove is one for an active move: its pointer has a move, and
\* neither composition nor a selection box takes the primary pointer.
movesTiles(st, action) ==
    /\ ~(st.inputLetters # Null /\ action.isPrimary)
    /\ ~(st.activeSelection # Null /\ action.isPrimary)
    /\ action.pointerId \in DOMAIN st.activeMoves

draggedTiles(st, pointerId) ==
    SelectSeq(st.tiles, LAMBDA t : includes(st.activeMoves[pointerId].tileIds, t.id))

\* The dragged tiles' squares together span no more than the window.
groupFitsWindow(st, pointerId) ==
    LET dragged == draggedTiles(st, pointerId)
        corners == calculateBoundingBox([i \in 1..Len(dragged) |-> dragged[i].offset])
    IN  /\ dragged # <<>>
        /\ corners[2] - corners[1] + tileSize <= st.windowDimensions[1]
        /\ corners[4] - corners[3] + tileSize <= st.windowDimensions[2]

\* The tile's square, at the offset from the window center, is in the window.
squareInWindow(offset, windowDimensions) ==
    LET topLeft == add(offset, scaleHalf(windowDimensions))
    IN  /\ topLeft[1] >= 0
        /\ topLeft[1] + tileSize <= windowDimensions[1]
        /\ topLeft[2] >= 0
        /\ topLeft[2] + tileSize <= windowDimensions[2]

\* C30: after a pointerMove for an active move whose dragged tiles together
\* span no more than the window, the preview holds every dragged tile, each
\* preview square lies inside the full window box, and all dragged tiles are
\* displaced from their offsets in the tile list by the same vector.
C30_DragPreviewStaysInWindow ==
    \A action \in PointerMoves :
        (movesTiles(state, action) /\ groupFitsWindow(state, action.pointerId)) =>
            \A o \in reducer(state, action) :
                LET dragged == draggedTiles(state, action.pointerId)
                    preview == o.state.activeMoves[action.pointerId].preview
                IN  /\ IsReturned(o)
                    /\ DOMAIN preview = ToSet(Ids(dragged))
                    /\ \A i \in 1..Len(dragged) :
                           /\ squareInWindow(preview[dragged[i].id].offset,
                                             state.windowDimensions)
                           /\ subtract(preview[dragged[i].id].offset, dragged[i].offset) =
                                  subtract(preview[dragged[1].id].offset, dragged[1].offset)

\* A pointerMove has dragged two tiles toward the window corner, and their
\* previews were held back from where the pointer alone would put them.
C30_Witness ==
    /\ last.type = "pointerMove"
    /\ \E p \in DOMAIN state.activeMoves :
           LET move == state.activeMoves[p]
           IN  /\ Cardinality(DOMAIN move.preview) = 2
               /\ move.position # move.origin
               /\ \A id \in DOMAIN move.preview :
                      /\ squareInWindow(move.preview[id].offset, state.windowDimensions)
                      /\ move.preview[id].offset #
                             add(tileById(state.tiles, id).offset,
                                 subtract(move.position, move.origin))

PointerUps ==
    {[type |-> "pointerUp", point |-> point, pointerId |-> p.pointerId,
      isPrimary |-> p.isPrimary] : point \in Points, p \in Pointers}

\* C31: a pointerUp that finalizes a move (its pointer has one, and neither
\* composition nor a selection box takes the primary pointer) removes that
\* pointer's entry from activeMoves and leaves the others; a non-primary
\* pointer's moved tile ids leave selectedTileIds, and a primary pointer
\* leaves selectedTileIds unchanged.
C31_PointerUpEndsItsMove ==
    \A action \in PointerUps :
        movesTiles(state, action) =>
            \A o \in reducer(state, action) :
                LET moved == ToSet(state.activeMoves[action.pointerId].tileIds)
                IN  /\ IsReturned(o)
                    /\ DOMAIN o.state.activeMoves =
                           DOMAIN state.activeMoves \ {action.pointerId}
                    /\ \A p \in DOMAIN o.state.activeMoves :
                           o.state.activeMoves[p] = state.activeMoves[p]
                    /\ o.state.selectedTileIds =
                           IF action.isPrimary THEN state.selectedTileIds
                           ELSE SelectSeq(state.selectedTileIds, LAMBDA id : id \notin moved)

\* The second pointer's pointerUp has committed its move beside the first
\* pointer's, and only the first pointer's tiles are still selected.
C31_Witness ==
    /\ last.type = "pointerUp"
    /\ last.changed
    /\ state.undoStack # <<>>
    /\ DOMAIN state.activeMoves = {1}
    /\ state.selectedTileIds = state.activeMoves[1].tileIds

\* The undo or redo returns from st the selection cut down to the restored
\* tiles, and as appearing tiles those the restored list has and st's lacks.
restoresSelectionAndAppearing(st, type) ==
    \A o \in reducer(st, [type |-> type]) :
        /\ IsReturned(o)
        /\ ToSet(o.state.selectedTileIds) =
               ToSet(st.selectedTileIds) \cap ToSet(Ids(o.state.tiles))
        /\ ToSet(o.state.appearingTileIds) =
               ToSet(Ids(o.state.tiles)) \ ToSet(Ids(st.tiles))

\* C32: after an undo or redo that had a snapshot to restore, selectedTileIds
\* holds the previous selection's ids that are in the restored tile list, and
\* appearingTileIds the ids of the restored list that the replaced one lacked.
C32_UndoRedoTrimSelection ==
    /\ state.undoStack # <<>> => restoresSelectionAndAppearing(state, "undo")
    /\ state.redoStack # <<>> => restoresSelectionAndAppearing(state, "redo")

\* An undo has taken a tile off the board while tiles were selected: the
\* replaced list is longer than the restored one, and all restored tiles
\* are selected.
C32_Witness ==
    /\ last.type = "undo"
    /\ last.changed
    /\ state.selectedTileIds # <<>>
    /\ ToSet(state.selectedTileIds) = ToSet(Ids(state.tiles))
    /\ Len(state.redoStack[1]) > Len(state.tiles)

\* The target ids are those of two or more tiles of the tile list.
twoOrMoreTargetTiles(st) ==
    /\ Len(targetTileIds(st)) >= 2
    /\ ToSet(targetTileIds(st)) \subseteq ToSet(Ids(st.tiles))

\* C33: an arrange of two or more target tiles returns, and it has given
\* some target tile another offset than it had, also when the tiles sat on
\* the computed target positions already.
C33_ArrangeChangesAssignment ==
    [][(last'.type = "arrange" /\ twoOrMoreTargetTiles(state)) =>
          (outcome' = "returned" /\ someTargetMoved(state, state'))]_vars

\* An arrange has returned a tile list whose tiles hold the very offsets
\* they held before, in another assignment: the tiles sat on the target
\* positions and the candidate was reshuffled.
C33_Witness ==
    /\ last.type = "arrange"
    /\ outcome = "returned"
    /\ Len(state.tiles) >= 2
    /\ state.undoStack # <<>>
    /\ beforeArrange(state).tiles # state.tiles
    /\ {state.tiles[i].offset : i \in 1..Len(state.tiles)} =
           {beforeArrange(state).tiles[i].offset : i \in 1..Len(state.tiles)}
    /\ Len(beforeArrange(state).tiles) = Len(state.tiles)

\* C34: an action that replaces selectedTileIds by the same ids in another
\* order, as selectAll does after the tiles were selected in another order,
\* leaves the arrange toggle set, so that the next arrange uses the line.
C34_ToggleKeptOnSameSelectedSet ==
    state.showingArrangeToLine =>
        \A o \in reducer(state, [type |-> "selectAll"]) :
            ToSet(o.state.selectedTileIds) = ToSet(state.selectedTileIds) =>
                /\ o.state.showingArrangeToLine
                /\ \A second \in reducer(o.state, [type |-> "arrange"]) :
                       IsReturned(second) /\ layoutOf(o.state, second.state) = "line"

\* The number of target tiles of `st`, taken from `tiles`, at the offset.
targetsAt(st, tiles, offset) ==
    Cardinality({i \in 1..Len(tiles) :
                    includes(targetTileIds(st), tiles[i].id) /\ tiles[i].offset = offset})

\* C35: shuffle and arrange change nothing of the tile list but offsets of
\* target tiles: the list keeps its length and order, every tile its id,
\* char and ghost flag, and every tile outside the target set its offset;
\* after shuffle every offset is held by as many target tiles as before.
C35_LayoutChangesOnlyTargetOffsets ==
    [][last'.type \in {"shuffle", "arrange"} =>
          /\ Len(state'.tiles) = Len(state.tiles)
          /\ \A i \in 1..Len(state.tiles) :
                 /\ state'.tiles[i] =
                        [state.tiles[i] EXCEPT !.offset = state'.tiles[i].offset]
                 /\ ~includes(targetTileIds(state), state.tiles[i].id) =>
                        state'.tiles[i] = state.tiles[i]
          /\ last'.type = "shuffle" =>
                 \A i \in 1..Len(state.tiles) :
                     targetsAt(state, state'.tiles, state.tiles[i].offset) =
                         targetsAt(state, state.tiles, state.tiles[i].offset)]_vars

\* A shuffle of two selected tiles of three has returned: the two have
\* swapped offsets and the third is where it was.
C35_Witness ==
    /\ last.type = "shuffle"
    /\ last.changed
    /\ outcome = "returned"
    /\ Len(state.selectedTileIds) = 2
    /\ Len(state.tiles) = 3
    /\ \E i \in 1..3 :
           /\ ~includes(state.selectedTileIds, state.tiles[i].id)
           /\ state.undoStack[Len(state.undoStack)][i] = state.tiles[i]
    /\ \E i \in 1..3 : state.undoStack[Len(state.undoStack)][i] # state.tiles[i]

\* C36: delete returns in every state, without a guard: with an empty
\* selection the tile list becomes empty, with a non-empty one exactly the
\* selected tiles leave it; the tile list as it was is pushed onto undoStack
\* and selectedTileIds becomes empty.
C36_DeleteRemovesSelectionOrAll ==
    \A o \in reducer(state, [type |-> "delete"]) :
        /\ IsReturned(o)
        /\ o.state.tiles =
               IF state.selectedTileIds = <<>> THEN <<>>
               ELSE SelectSeq(state.tiles,
                              LAMBDA t : t.id \notin ToSet(state.selectedTileIds))
        /\ o.state.undoStack = Append(state.undoStack, state.tiles)
        /\ o.state.selectedTileIds = <<>>

\* The first action of the run was a delete with nothing selected: the board
\* is empty and its tiles are on undoStack.
C36_Witness ==
    /\ last.type = "delete"
    /\ budget = MaxSteps - 1
    /\ state.tiles = <<>>
    /\ state.selectedTileIds = <<>>
    /\ Len(state.undoStack) = 1
    /\ Len(state.undoStack[1]) = 2

\* C37: shuffle and arrange complete in every reachable state: no action of
\* a run is left inside a loop that never ends.
C37_ShuffleAndArrangeComplete == outcome # "hung"

mirrorConsistent == run.pending = Null /\ run.persisted = encodeHash(state.tiles)

\* C38: the URL fragment follows the tile list without holding it up.  With
\* a write pending the next action is taken as without one; each write puts
\* the latest tile list into the fragment (the empty fragment for the empty
\* list), whatever lists came between; and once actions have stopped (an
\* action that never returns has not) the fragment encodes the tile list
\* for good.
C38_MirrorEventuallyConsistent ==
    /\ []((Running /\ run.pending # Null) => ENABLED <<MirrorActions>>_vars)
    /\ [][last'.type = "updateURL" => run'.persisted = encodeHash(state.tiles)]_vars
    /\ <>[](outcome = "hung" \/ mirrorConsistent)

\* One write has put the tile list into the fragment after two changes of
\* the list.
C38_Witness ==
    /\ last.type = "updateURL"
    /\ run.writes = 1
    /\ Len(state.undoStack) >= 2
    /\ state.tiles # <<>>
    /\ mirrorConsistent

\* C39: in every state the moves of two different pointers have no tile in
\* common.
C39_MovesAreDisjoint ==
    \A p \in DOMAIN state.activeMoves : \A q \in DOMAIN state.activeMoves :
        p # q => ToSet(state.activeMoves[p].tileIds)
                     \cap ToSet(state.activeMoves[q].tileIds) = {}

\* Two pointers are dragging: the second pointerDown has started a move next
\* to the first one.
C39_Witness ==
    /\ last = [type |-> "pointerDown", changed |-> TRUE]
    /\ Cardinality(DOMAIN state.activeMoves) = 2
    /\ \A p \in DOMAIN state.activeMoves : state.activeMoves[p].tileIds # <<>>

\* The pointerMove and pointerUp actions of a pointer.
gestureEndOf(p) ==
    {[type |-> type, point |-> point, pointerId |-> p.pointerId,
      isPrimary |-> p.isPrimary] :
        type \in {"pointerMove", "pointerUp"}, point \in Points}

keepsTilesAndHistory(st, action) ==
    \A o \in reducer(st, action) :
        /\ IsReturned(o)
        /\ o.state.tiles = st.tiles
        /\ o.state.undoStack = st.undoStack
        /\ o.state.redoStack = st.redoStack

\* The pointers whose move an undo or redo discarded and that have not
\* started another move.
interruptedPointers ==
    {p \in Pointers : p.pointerId \in run.pointers
                      /\ p.pointerId \notin DOMAIN state.activeMoves}

undoneOrRedone == last.type \in {"undo", "redo"} /\ last.changed

commitsComposition(st, action) ==
    action.type = "pointerUp" /\ action.isPrimary /\ st.inputLetters # Null

\* C40 (amended): a successful undo or redo leaves no move, and from then on
\* a pointerMove or pointerUp of a pointer whose move it discarded changes
\* neither the tile list nor the history stacks, but for a primary pointerUp
\* during composition, which commits the composition.
C40_UndoRedoDiscardMovesOutsideComposition ==
    /\ undoneOrRedone => DOMAIN state.activeMoves = {}
    /\ \A p \in interruptedPointers : \A action \in gestureEndOf(p) :
           ~commitsComposition(state, action) => keepsTilesAndHistory(state, action)

\* C40 (as stated): a successful undo or redo leaves no move, and from then
\* on a pointerMove or pointerUp of a pointer whose move it discarded changes
\* neither the tile list nor the history stacks.
C40_UndoRedoDiscardMoves ==
    /\ undoneOrRedone => DOMAIN state.activeMoves = {}
    /\ \A p \in interruptedPointers : \A action \in gestureEndOf(p) :
           keepsTilesAndHistory(state, action)

\* Both pointers were dragging when the tiles were undone or redone, and the
\* pointerUp that followed changed nothing.
C40_Witness ==
    /\ last = [type |-> "pointerUp", changed |-> FALSE]
    /\ budget = MaxSteps - 3
    /\ Cardinality(run.pointers) = 2
    /\ state.inputLetters = Null
    /\ state.redoStack # <<>> \/ state.undoStack # <<>>

====
